---- MODULE Spec2Model ----
(***************************************************************************)
(* Model of the scrape supervisor of rlunch (src/src/scrape.rs): one       *)
(* supervisor (run / run_oneshot / run_loop / handle_result /              *)
(* stop_scrapers), the cron timer (start_scheduler), the scraper tasks     *)
(* (run_scraper), the broadcast command bus and the bounded result         *)
(* channel; and of the response cache the scrapers fetch through           *)
(* (src/src/cache.rs): Client::build, get_as_string and save, the TTL      *)
(* cache behind them and the cache file.                                   *)
(***************************************************************************)
EXTENDS Integers, Sequences, FiniteSets, TLC

\* ---- bounds of the model ----
MaxScrapers == 2        \* at most this many scraper tasks are spawned
MaxRuns == 4            \* the cron timer asks for at most this many runs in all
MaxBacklog == 9         \* the same, where one task is left to fall behind
MaxTtl == 2             \* cache_ttl is one of 0..MaxTtl clock units
MaxCapacity == 2        \* cache_capacity is one of 0..MaxCapacity entries
MaxClock == 3           \* the clock of the cache runs from 0 to MaxClock
MaxApplies == 2         \* update_restaurants is called at most this often

\* ---- program constants ----
CmdCap == 8             \* broadcast::channel(8)
ResCap == 8             \* mpsc::channel(8)

Scrapers == 1..MaxScrapers

VARIABLES
    schedule,    \* Option<CompactString> given to run: "none", "valid", "malformed"
    mode,        \* "undecided", "oneshot" (run_oneshot) or "loop" (run_loop)
    n,           \* number of scraper tasks setup_scrapers spawns
    supPc,       \* position of the supervisor
    spawned,     \* number of tasks spawned so far by setup_scrapers
    iter,        \* number of handle_result calls that returned true
    cur,         \* the Ok result handle_result is applying
    res,         \* Result of run_oneshot / run_loop: "none", "ok", "err"
    runResult,   \* what run returned: "none", "ok", "err"
    sig,         \* external shutdown signal: "none", or "observed" by handle_result
    busyAtSignal, \* the tasks that were inside scraper.run() when it was observed
    schedState,  \* cron scheduler: "none", "started", "stopped"
    ticks,       \* firings of the timer so far
    tickFailed,  \* a firing found no receiver (send(..).expect panicked)
    dropped,     \* the JoinSet was dropped without waiting for its tasks
    cmds,        \* every command accepted by the broadcast bus, in order
    pos,         \* pos[i]: number of bus commands receiver i is past
    pc,          \* pc[i]: position of scraper task i
    pending,     \* pending[i]: the result task i is about to send
    recvd,       \* recvd[i]: Run commands task i received
    okRuns,      \* okRuns[i]: runs of task i that returned Ok
    errRuns,     \* errRuns[i]: runs of task i that returned Err
    sent,        \* sent[i]: results task i put on the result channel
    resChan,     \* contents of the result channel
    resClosed,   \* res_rx.close() was called
    gotOk,       \* gotOk[i]: Ok results of task i the supervisor received
    gotErr,      \* gotErr[i]: Err results of task i the supervisor received
    commits,     \* commits[i]: update_restaurants calls for site i that committed
    failures,    \* failures[i]: update_restaurants calls for site i that failed
    stored,      \* stored[i]: seq of the result last committed for site i
    pgClosed,    \* pg.close() done
    cacheSaved,  \* client.save(): "none", "ok", "err"
    cache_ttl,      \* Opts::cache_ttl, in clock units
    cache_capacity, \* Opts::cache_capacity
    cache_path,     \* Opts::cache_path: NoPath or the path of the cache file
    clock,          \* the time the cache reads
    file,           \* the file at cache_path: [kind, store]
    client,         \* "unbuilt", or "built" by Client::build
    builtAt,        \* the time Client::build ran for the client
    cache,          \* cache[u]: the entry the moka cache holds for url u
    last,           \* outcome of the latest get_as_string call
    saveRes,        \* what the latest Client::save returned: "none", "ok", "err"
    saveDropped,    \* entries the cache held that save did not write (0 once built again)
    handle,         \* handle[t]: the cache the client clone of task t refers to
    copies,         \* copies[t]: a cache of task t's own, were its clone to have one
    flight,         \* flight[t]: the url task t is fetching from the network
    storedBy,       \* storedBy[u]: the task that last put a response for url u
    update,         \* the SiteScrapeResult given to update_restaurants
    pg,             \* the committed restaurant and dish tables
    tx,             \* the tables as the open transaction of the update sees them
    txPc,           \* the statement update_restaurants is about to run
    txIdx,          \* the restaurant of the update the loop is at
    applies,        \* update_restaurants calls that have returned
    applyRes,       \* what the latest call returned: "none", "ok", "err"
    commitLog,      \* the committed tables after each call that committed, in order
    hist,           \* every state the committed tables have been in
    failedAt,       \* where the last failed call of update_restaurants was when it failed
    rdPc,           \* the query list_dishes_for_site_by_id is about to run
    seen,           \* the rows its queries have returned so far
    relation,       \* the site id get_site_relation finds for the scraper's key
    site_id,        \* site_id[i]: the site id scraper i was built with
    resolves,       \* resolves[i]: get_site_relation calls made for scraper i
    listing,        \* parse_site: the restaurant names of the directory listing
    dayMenus,       \* parse_site: the menus of the day as the remote side has them, by key
    menus,          \* parse_site: the menus of the day after strip_key_suffix
    rsMap,          \* parse_site: rsMap[name]: the dishes of the restaurant of that name (rs)
    todo,           \* parse_site: the keys of the menus the loop has yet to visit
    skipped,        \* parse_site: the keys the loop found no restaurant for
    psPc,           \* parse_site: where it is
    parseRes,       \* parse_site: what it returned: "none", "ok", "err"
    shownDish,      \* the data::Dish handed to Display: its name and description
    shown           \* the text Display wrote for it: <<>> before, <<text>> after

vars == <<schedule, mode, n, supPc, spawned, iter, cur, res, runResult, sig,
          busyAtSignal, schedState, ticks, tickFailed, dropped, cmds, pos, pc,
          pending, recvd,
          okRuns, errRuns, sent, resChan, resClosed, gotOk, gotErr, commits,
          failures, stored, pgClosed, cacheSaved,
          cache_ttl, cache_capacity, cache_path, clock, file, client, builtAt,
          cache, last, saveRes, saveDropped, handle, copies, flight,
          storedBy, update, pg, tx, txPc, txIdx, applies, applyRes,
          commitLog, hist, failedAt, rdPc, seen, relation, site_id, resolves,
          listing, dayMenus, menus, rsMap, todo, skipped, psPc, parseRes,
          shownDish, shown>>

supVars == <<supPc, spawned, iter, cur, res, runResult, pgClosed, cacheSaved>>
taskVars == <<pc, pending, recvd, okRuns, errRuns, sent, pos>>
envVars == <<schedule, n>>
sigVars == <<sig, busyAtSignal>>
dbVars == <<gotOk, gotErr, commits, failures, stored>>
optVars == <<cache_ttl, cache_capacity, cache_path>>
cloneVars == <<handle, copies, flight, storedBy>>
cacheVars == <<optVars, clock, file, client, builtAt, cache, last, saveRes,
               saveDropped, cloneVars>>
writerVars == <<update, pg, tx, txPc, txIdx, applies, applyRes, commitLog,
                hist, failedAt>>
readerVars == <<rdPc, seen>>
storeVars == <<writerVars, readerVars>>
siteVars == <<relation, site_id, resolves>>
parseVars == <<listing, dayMenus, menus, rsMap, todo, skipped, psPc, parseRes>>
dishVars == <<shownDish, shown>>
scrapeVars == <<siteVars, envVars, supVars, taskVars, sigVars, dbVars, mode, schedState,
                ticks, tickFailed, dropped, cmds, resChan, resClosed>>

NoSite == "none"            \* no site id
SiteIds == {"s1", "s2"}     \* the ids the site of a key may have in the database

\* No result: the fields of a result are the task it is from, Ok or Err, the
\* Run it answers, its site_id and the site_ids of its restaurants.
NoRes == [from |-> 0, ok |-> FALSE, seq |-> 0, site_id |-> NoSite, sites |-> {}]

\* ---- helpers ----

\* A task that holds its command receiver and its result sender.
Alive(i) == pc[i] \in {"recv", "run", "send"}

Terminated(i) == pc[i] \in {"done", "aborted", "panicked"}

\* broadcast::Sender::send fails exactly when no receiver is subscribed.
Receivers == {i \in Scrapers : Alive(i)}

RECURSIVE CountCmd(_, _)
CountCmd(s, c) ==
    IF s = <<>> THEN 0
    ELSE (IF Head(s) = c THEN 1 ELSE 0) + CountCmd(Tail(s), c)

NumRuns == CountCmd(cmds, "Run")
ShutdownSent == CountCmd(cmds, "Shutdown") > 0

\* JoinSet::shutdown / drop of the JoinSet: every task still suspended in
\* cmds.recv(), scraper.run() or results.send() is cancelled there.
CancelAll == [i \in Scrapers |-> IF Alive(i) THEN "aborted" ELSE pc[i]]

\* ---- the values of the response cache ----

Urls == {"u1", "u2"}        \* the urls the scrapers fetch
Bodies == {"a", "b"}        \* the bodies the remote side answers with

NoPath == "none"            \* cache_path: None
NoEntry == [value |-> "none", inserted |-> 0]
NoCall == [url |-> "none", net |-> 0, res |-> "none"]
EmptyCache == [u \in Urls |-> NoEntry]
NoFile == [kind |-> "missing", store |-> <<>>]
Clones == {"t1", "t2"}     \* the tasks that hold a clone of the client
NoFlight == "none"
NoStorer == "none"

\* No task holds a clone of the client.
NoClones ==
    /\ handle = [t \in Clones |-> "none"]
    /\ copies = [t \in Clones |-> EmptyCache]
    /\ flight = [t \in Clones |-> NoFlight]
    /\ storedBy = [u \in Urls |-> NoStorer]

\* ---- the values of the store: the restaurant and dish tables ----

Site == "S"                 \* the site of the scraper whose result is applied
OtherSite == "T"            \* another site of the store

\* A Dish as a scraper builds it: an id of its own, the id of its restaurant,
\* a name and a list of tags.
Dish(id, rid, name, tags) ==
    [dish_id |-> id, restaurant_id |-> rid, name |-> name, tags |-> tags]

\* Variant: the restaurant is stamped with the id of another site.
RestaurantOfOtherSite(id, site, name, dishes) ==
    [restaurant_id |-> id, site_id |-> OtherSite, name |-> name,
     dishes |-> dishes]

\* A Restaurant as a scraper builds it, holding its dishes.
Restaurant(id, site, name, dishes) ==
    [restaurant_id |-> id, site_id |-> site, name |-> name, dishes |-> dishes]

\* The rows of the two tables, with the columns the statements of
\* update_restaurants name (columns that play no part in them are left out).
RestaurantRow(site, id, name) ==
    [site_id |-> site, restaurant_id |-> id, restaurant_name |-> name]

DishRow(rid, id, name, tags) ==
    [restaurant_id |-> rid, dish_id |-> id, dish_name |-> name, tags |-> tags]

Tables(rs, ds) == [restaurant |-> rs, dish |-> ds]
EmptyTables == Tables({}, {})
NoTx == EmptyTables

\* What a scrape of the site yields: restaurants keyed by their name, each
\* with a new id, every dish carrying the id of its restaurant; a restaurant
\* may come without dishes.
R1 ==
    Restaurant("r1", Site, "n1",
               {Dish("d1", "r1", "soup", <<"veg", "hot">>),
                Dish("d2", "r1", "stew", <<>>)})

R2 == Restaurant("r2", Site, "n2", {Dish("d3", "r2", "fish", <<"fish">>)})

R2NoDishes == Restaurant("r2", Site, "n2", {})

Results ==
    {<<>>, <<R1>>, <<R2NoDishes>>, <<R1, R2>>, <<R2, R1>>, <<R1, R2NoDishes>>}

\* What the store may hold before: two restaurants of the site with the name
\* of a scraped one, a restaurant of the site no scrape names, and a
\* restaurant of another site with the name of a scraped one; each has a dish.
OldRestaurants ==
    {RestaurantRow(Site, "o1", "n1"), RestaurantRow(Site, "o2", "n1"),
     RestaurantRow(Site, "o3", "n3"), RestaurantRow(OtherSite, "o4", "n1")}

OldDishes ==
    {DishRow("o1", "x1", "soup", "veg,hot"), DishRow("o2", "x2", "pie", ""),
     DishRow("o3", "x3", "cake", ""), DishRow("o4", "x4", "soup", "")}

get_restaurant_ids(restaurants) == {r.restaurant_id : r \in restaurants}

DishesOf(t, ids) == {d \in t.dish : d.restaurant_id \in ids}

InitialTables ==
    {Tables(rs, DishesOf(Tables(rs, OldDishes), get_restaurant_ids(rs))) :
        rs \in SUBSET OldRestaurants}

NoRows == [restaurant |-> {}, dish |-> {}]

\* The scrape specifications leave the store aside.
StoreUnused ==
    /\ update = <<>>
    /\ pg = EmptyTables
    /\ tx = NoTx
    /\ txPc = "idle"
    /\ txIdx = 0
    /\ applies = 0
    /\ applyRes = "none"
    /\ commitLog = <<>>
    /\ hist = {EmptyTables}
    /\ failedAt = "none"
    /\ rdPc = "idle"
    /\ seen = NoRows

\* ---- the values of the reference scraper (fawenah.rs) ----

\* The restaurant names the directory listing may hold, and the keys the
\* menus of the day may have.
ListingNames == {"A", "B"}
MenuKeys == {"A", "AScraper", "BScraper", "CScraper"}

\* The items of the menu entry with key k: their names, in order (an entry
\* may have no item, and two items may have the same name).
ItemsOf(k) ==
    IF k = "A" THEN <<"soup">>
    ELSE IF k = "AScraper" THEN <<"stew", "fish">>
    ELSE IF k = "BScraper" THEN <<"pie", "pie">>
    ELSE <<>>

\* A DayMenu as downloaded; `entry` tells the entries apart (the key it was
\* downloaded under).
DayMenu(k) == [entry |-> k, items |-> ItemsOf(k)]

\* The id Restaurant::new gives the restaurant of a name (Uuid::new_v4).
RestaurantId(name) == "id-" \o name

\* The Dish made of item idx of a menu entry for the restaurant of a name:
\* a dish_id of its own (Uuid::new_v4), the restaurant's id, the item's name.
DishOfItem(m, idx, name) ==
    [dish_id |-> <<m.entry, idx>>,
     restaurant_id |-> RestaurantId(name),
     name |-> m.items[idx]]

NoMenus == [k \in {} |-> DayMenu("A")]
NoRestaurants == [name \in {} |-> {}]

\* str::strip_suffix: the key without the suffix if it ends with it.
strip_suffix(k, suffix) ==
    IF Len(k) >= Len(suffix)
       /\ SubSeq(k, Len(k) - Len(suffix) + 1, Len(k)) = suffix
    THEN SubSeq(k, 1, Len(k) - Len(suffix))
    ELSE k

\* The key an entry is kept under: the stripped key, or the key itself when
\* it does not end with the suffix.
StrippedKey(k) == strip_suffix(k, "Scraper")

\* DayMenus::strip_key_suffix: every entry is added to a new map under its
\* stripped key; of several entries with the same stripped key the one added
\* last stays, and the order of the drain decides which one that is.
strip_key_suffix(m) ==
    LET targets == {StrippedKey(k) : k \in DOMAIN m}
        picks == {f \in [targets -> DOMAIN m] :
                     \A t \in targets : StrippedKey(f[t]) = t}
    IN  {[t \in targets |-> m[f[t]]] : f \in picks}

\* parse_site has not been called.
ParseUnused ==
    /\ listing = {}
    /\ dayMenus = NoMenus
    /\ menus = NoMenus
    /\ rsMap = NoRestaurants
    /\ todo = {}
    /\ skipped = {}
    /\ psPc = "unused"
    /\ parseRes = "none"

\* ---- the values of data::Dish and its Display ----

\* An Option<String>: <<>> is None, <<d>> is Some(d).
None == <<>>
Some(d) == <<d>>

\* The names and descriptions a dish is shown with; the empty string and
\* strings with a space of their own are among them.
DishNames == {"", "a", "meat", "fish", "soup", "meat balls", "x y"}
Descriptions ==
    {None} \cup {Some(d) : d \in {"", " ", "b", "balls", "x", "with rice",
                                   "and chips"}}

\* Display for Dish without the description.
fmtNameOnly(dish) == dish.name

\* Display for Dish: "{} {}" of name and description when there is a
\* description, "{}" of the name when there is none.
fmt(dish) ==
    IF dish.description # None
    THEN dish.name \o " " \o dish.description[1]
    ELSE dish.name

\* No dish is shown.
DishUnused ==
    /\ shownDish = [name |-> "", description |-> None]
    /\ shown = <<>>

\* The supervisor specifications leave the response cache aside.
CacheUnused ==
    /\ cache_ttl = 0
    /\ cache_capacity = 0
    /\ cache_path = NoPath
    /\ clock = 0
    /\ file = NoFile
    /\ client = "unbuilt"
    /\ builtAt = 0
    /\ cache = EmptyCache
    /\ last = NoCall
    /\ saveRes = "none"
    /\ saveDropped = 0
    /\ NoClones

InitScrape ==
    /\ schedule \in {"none", "valid", "malformed"}
    /\ n \in 1..MaxScrapers
    /\ mode = "undecided"
    /\ supPc = "start"
    /\ spawned = 0
    /\ iter = 0
    /\ cur = NoRes
    /\ res = "none"
    /\ runResult = "none"
    /\ sig = "none"
    /\ busyAtSignal = {}
    /\ schedState = "none"
    /\ ticks = 0
    /\ tickFailed = FALSE
    /\ dropped = FALSE
    /\ cmds = <<>>
    /\ pos = [i \in Scrapers |-> 0]
    /\ pc = [i \in Scrapers |-> "unspawned"]
    /\ pending = [i \in Scrapers |-> NoRes]
    /\ recvd = [i \in Scrapers |-> 0]
    /\ okRuns = [i \in Scrapers |-> 0]
    /\ errRuns = [i \in Scrapers |-> 0]
    /\ sent = [i \in Scrapers |-> 0]
    /\ resChan = <<>>
    /\ resClosed = FALSE
    /\ gotOk = [i \in Scrapers |-> 0]
    /\ gotErr = [i \in Scrapers |-> 0]
    /\ commits = [i \in Scrapers |-> 0]
    /\ failures = [i \in Scrapers |-> 0]
    /\ stored = [i \in Scrapers |-> 0]
    /\ pgClosed = FALSE
    /\ cacheSaved = "none"
    /\ relation = "s1"
    /\ site_id = [i \in Scrapers |-> NoSite]
    /\ resolves = [i \in Scrapers |-> 0]

Init == InitScrape /\ CacheUnused /\ StoreUnused /\ ParseUnused /\ DishUnused

\* ---- the supervisor: run, start_scheduler, setup_scrapers ----

\* start_scheduler: Ok(sched) only when a schedule is given and every step
\* of building and starting the cron job succeeds; every Err, the missing
\* schedule and the malformed expression alike, is an Err.
SchedulerStarts(s) == s = "valid"

\* run: Ok(sched) => run_loop, Err(e) => run_oneshot.
StartScheduler ==
    /\ supPc = "start"
    /\ IF SchedulerStarts(schedule)
       THEN mode' = "loop" /\ schedState' = "started"
       ELSE mode' = "oneshot" /\ schedState' = "none"
    /\ supPc' = "setup"
    /\ UNCHANGED <<envVars, siteVars, cacheVars, storeVars, parseVars, dishVars, dropped, spawned, iter, cur, res, runResult, sigVars, ticks,
                   tickFailed, cmds, taskVars, resChan, resClosed, dbVars,
                   pgClosed, cacheSaved>>

\* Where the supervisor goes when setup_scrapers has returned Ok.
AfterSetup == IF mode = "oneshot" THEN "trigger" ELSE "select"

\* db::get_site_relation(pg, SiteKey::new(..)).await?.site_id, when the query
\* finds the row of the key: the site id the database holds for it now.
get_site_relation(rel) == rel

\* setup_scrapers, one set.spawn at a time: resolve the site id, subscribe a
\* receiver at the tail of the bus, clone the result sender, spawn.  After
\* the last spawn the function returns and drops its own result sender.
SpawnScraper ==
    /\ supPc = "setup"
    /\ spawned < n
    /\ spawned' = spawned + 1
    /\ pc' = [pc EXCEPT ![spawned + 1] = "recv"]
    /\ pos' = [pos EXCEPT ![spawned + 1] = Len(cmds)]
    /\ supPc' = IF spawned + 1 = n THEN AfterSetup ELSE "setup"
    /\ site_id' = [site_id EXCEPT ![spawned + 1] = get_site_relation(relation)]
    /\ resolves' = [resolves EXCEPT ![spawned + 1] = resolves[spawned + 1] + 1]
    /\ UNCHANGED <<envVars, relation, cacheVars, storeVars, parseVars, dishVars, dropped, mode, iter, cur, res, runResult, sigVars, schedState,
                   ticks, tickFailed, cmds, pending, recvd, okRuns, errRuns, sent,
                   resChan, resClosed, dbVars, pgClosed, cacheSaved>>

\* Variant: run passes the error on with `?` and leaves at once.
AfterSetupFailedReturns == "returned"

\* run: the result of run_oneshot / run_loop is kept in `res`, without `?`,
\* and the cleanup comes next.
AfterSetupFailed == "closePg"

\* setup_scrapers: get_site_relation(..).await? fails; the JoinSet is dropped
\* there, which asks every task spawned so far to abort without waiting for
\* it, and run_oneshot / run_loop return the error at once.
SetupFails ==
    /\ supPc = "setup"
    /\ spawned < n
    /\ res' = "err"
    /\ dropped' = TRUE
    /\ supPc' = AfterSetupFailed
    /\ UNCHANGED <<envVars, siteVars, cacheVars, storeVars, parseVars, dishVars, mode, spawned, iter, cur, runResult, sigVars,
                   schedState, ticks, tickFailed, cmds, pc, pos, pending, recvd,
                   okRuns, errRuns, sent, resChan, resClosed, dbVars, pgClosed,
                   cacheSaved>>

\* run_oneshot: cmd_tx.send(ScrapeCommand::Run)?
TriggerOnce ==
    /\ supPc = "trigger"
    /\ IF Receivers # {}
       THEN /\ cmds' = Append(cmds, "Run")
            /\ supPc' = "select"
            /\ UNCHANGED <<res, pc>>
       ELSE /\ res' = "err"
            /\ pc' = CancelAll
            /\ supPc' = "closePg"
            /\ UNCHANGED cmds
    /\ UNCHANGED <<envVars, siteVars, cacheVars, storeVars, parseVars, dishVars, dropped, mode, spawned, iter, cur, runResult, sigVars,
                   schedState, ticks, tickFailed, pos, pending, recvd, okRuns, errRuns,
                   sent, resChan, resClosed, dbVars, pgClosed, cacheSaved>>

\* ---- the supervisor: handle_result and the loops around it ----

\* Variant: the loop bound is one short.
OneshotIterationsShort(k) == k - 1

\* run_oneshot: for _ in 0..tasks.len()
OneshotIterations(k) == k

\* Variant: the one-shot loop has no bound, as with `loop` for `for`.
AfterHandledUnbounded(k) == "select"

\* Where the loop goes after handle_result returned true for the k-th time.
AfterHandled(k) ==
    IF mode = "oneshot" /\ k >= OneshotIterations(n) THEN "stopSend"
    ELSE "select"

\* Variant: after the shutdown arm the loop goes round once more and takes
\* what is left in the channel.
LeaveLoopDrains == "select"

\* Where the supervisor goes when handle_result returned false.
LeaveLoop == IF mode = "loop" THEN "schedShutdown" ELSE "stopSend"

\* Variant: every received result is handed to the database.
NeedsApplyAlways(r) == TRUE

\* handle_result: Ok(v) is applied to the database, Err(e) is logged.
NeedsApply(r) == r.ok

\* Variant: an Err result makes handle_result return false.
ContinueAfterOkOnly(r) == r.ok

\* handle_result: after Some(v), Ok or Err, the function returns true.
ContinueAfter(r) == TRUE

\* Variant: the error of update_restaurants is propagated with `?`.
ApplyFailureHaltsOnErr(committed) == ~committed

\* handle_result: `if let Err(e) = db::update_restaurants(..) { error!(..) }`
\* - a failed apply is logged, it does not end the loop.
ApplyFailureHalts(committed) == FALSE

\* handle_result, select arm `_ = shutdown.recv()`: a shutdown signal has
\* reached the process (now, or earlier and buffered in the receiver that
\* run holds from its first line on) and the select takes that arm.
ObserveShutdown ==
    /\ supPc = "select"
    /\ sig = "none"
    /\ sig' = "observed"
    /\ busyAtSignal' = {i \in Scrapers : pc[i] = "run"}
    /\ resClosed' = TRUE
    /\ supPc' = LeaveLoop
    /\ UNCHANGED <<envVars, siteVars, cacheVars, storeVars, parseVars, dishVars, dropped, mode, spawned, iter, cur, res, runResult,
                   schedState, ticks, tickFailed, cmds, taskVars, resChan,
                   dbVars, pgClosed, cacheSaved>>

\* Variant: the update is started in the background and the supervisor goes
\* straight back to the select.
AfterRecvOkDeferred == "select"

\* handle_result: db::update_restaurants(pg, v).await is awaited in place,
\* before handle_result returns.
AfterRecvOk == "apply"

\* Every result sender is gone: the supervisor holds none after
\* setup_scrapers, each task holds one until it ends.
NoSenders == \A i \in Scrapers : ~Alive(i)

\* handle_result, select arm `res = res_rx.recv()`: Some(Ok), Some(Err), None.
RecvResult ==
    /\ supPc = "select"
    /\ resChan # <<>> \/ NoSenders
    /\ IF resChan # <<>>
       THEN LET r == Head(resChan) IN
            /\ resChan' = Tail(resChan)
            /\ IF r.ok
               THEN /\ gotOk' = [gotOk EXCEPT ![r.from] = gotOk[r.from] + 1]
                    /\ UNCHANGED gotErr
               ELSE /\ gotErr' = [gotErr EXCEPT ![r.from] = gotErr[r.from] + 1]
                    /\ UNCHANGED gotOk
            /\ IF NeedsApply(r)
               THEN cur' = r /\ supPc' = AfterRecvOk /\ iter' = iter
               ELSE cur' = cur /\ iter' = iter + 1
                    /\ supPc' = IF ContinueAfter(r)
                                THEN AfterHandled(iter + 1) ELSE LeaveLoop
            /\ UNCHANGED resClosed
       ELSE /\ resClosed' = TRUE
            /\ supPc' = LeaveLoop
            /\ UNCHANGED <<resChan, gotOk, gotErr, cur, iter>>
    /\ UNCHANGED <<envVars, siteVars, cacheVars, storeVars, parseVars, dishVars, dropped, mode, spawned, res, runResult, sigVars, schedState,
                   ticks, tickFailed, cmds, taskVars, commits, failures,
                   stored, pgClosed, cacheSaved>>

\* handle_result: db::update_restaurants(pg, v).await, one transaction that
\* commits or fails as a whole.
ApplyResult ==
    /\ supPc = "apply"
    /\ \E committed \in BOOLEAN :
        /\ IF committed
           THEN /\ commits' = [commits EXCEPT ![cur.from] = commits[cur.from] + 1]
                /\ stored' = [stored EXCEPT ![cur.from] = cur.seq]
                /\ UNCHANGED failures
           ELSE /\ failures' = [failures EXCEPT ![cur.from] =
                                    failures[cur.from] + 1]
                /\ UNCHANGED <<commits, stored>>
        /\ IF ApplyFailureHalts(committed)
           THEN res' = "err" /\ pc' = CancelAll /\ supPc' = "closePg"
           ELSE res' = res /\ pc' = pc /\ supPc' = AfterHandled(iter + 1)
    /\ cur' = NoRes
    /\ iter' = iter + 1
    /\ UNCHANGED <<envVars, siteVars, cacheVars, storeVars, parseVars, dishVars, dropped, mode, spawned, runResult, sigVars, schedState, ticks,
                   tickFailed, cmds, pos, pending, recvd, okRuns, errRuns, sent,
                   resChan, resClosed, gotOk, gotErr, pgClosed, cacheSaved>>

\* run_loop: sched.shutdown().await?
SchedShutdown ==
    /\ supPc = "schedShutdown"
    /\ schedState' = "stopped"
    /\ supPc' = "stopSend"
    /\ UNCHANGED <<envVars, siteVars, cacheVars, storeVars, parseVars, dishVars, dropped, mode, spawned, iter, cur, res, runResult, sigVars,
                   ticks, tickFailed, cmds, taskVars, resChan, resClosed,
                   dbVars, pgClosed, cacheSaved>>

\* stop_scrapers: cmd_tx.send(ScrapeCommand::Shutdown)? - with no receiver
\* left the send is an error, stop_scrapers returns it and drops the JoinSet.
StopSend ==
    /\ supPc = "stopSend"
    /\ IF Receivers # {}
       THEN /\ cmds' = Append(cmds, "Shutdown")
            /\ supPc' = "abort"
            /\ UNCHANGED <<res, pc>>
       ELSE /\ res' = "err"
            /\ pc' = CancelAll
            /\ supPc' = "closePg"
            /\ UNCHANGED cmds
    /\ UNCHANGED <<envVars, siteVars, cacheVars, storeVars, parseVars, dishVars, dropped, mode, spawned, iter, cur, runResult, sigVars,
                   schedState, ticks, tickFailed, pos, pending, recvd, okRuns, errRuns,
                   sent, resChan, resClosed, dbVars, pgClosed, cacheSaved>>

\* Variant: the tasks are waited for without being aborted, as with
\* `while tasks.join_next().await.is_some() {}` before the shutdown.
JoinReadyWhenEnded == \A i \in Scrapers : ~Alive(i)

\* JoinSet::shutdown aborts every task before it waits for them: each task
\* ends at the await it is suspended in, so the wait needs no step of a task.
JoinReady == TRUE

\* stop_scrapers: tasks.shutdown().await aborts every task of the set and
\* waits until all of them have ended; stop_scrapers and its caller return Ok.
AbortAndJoin ==
    /\ supPc = "abort"
    /\ JoinReady
    /\ pc' = CancelAll
    /\ res' = "ok"
    /\ supPc' = "closePg"
    /\ UNCHANGED <<envVars, siteVars, cacheVars, storeVars, parseVars, dishVars, dropped, mode, spawned, iter, cur, runResult, sigVars,
                   schedState, ticks, tickFailed, cmds, pos, pending, recvd,
                   okRuns, errRuns, sent, resChan, resClosed, dbVars, pgClosed,
                   cacheSaved>>

\* run: pg.close().await
ClosePg ==
    /\ supPc = "closePg"
    /\ pgClosed' = TRUE
    /\ supPc' = "save"
    /\ UNCHANGED <<envVars, siteVars, cacheVars, storeVars, parseVars, dishVars, dropped, mode, spawned, iter, cur, res, runResult, sigVars,
                   schedState, ticks, tickFailed, cmds, taskVars, resChan,
                   resClosed, dbVars, cacheSaved>>

\* Variant: the failure of the save is returned, as with `client.save().await?`.
ReturnedSaveFirst(r, saved) == IF saved = "err" THEN "err" ELSE r

\* run: `if let Err(err) = client.save().await { error!(..) }`, then `res`.
Returned(r, saved) == r

\* run: client.save().await, a failure is logged; then `res` is returned.
SaveCache ==
    /\ supPc = "save"
    /\ \E ok \in BOOLEAN : cacheSaved' = IF ok THEN "ok" ELSE "err"
    /\ runResult' = Returned(res, cacheSaved')
    /\ supPc' = "returned"
    /\ UNCHANGED <<envVars, siteVars, cacheVars, storeVars, parseVars, dishVars, dropped, mode, spawned, iter, cur, res, sigVars, schedState,
                   ticks, tickFailed, cmds, taskVars, resChan, resClosed,
                   dbVars, pgClosed>>

\* ---- the scraper tasks: run_scraper ----

\* Variant: the task breaks out of its loop after reporting an Err.
ScraperAfterSendBreakOnErr(r) == IF r.ok THEN "recv" ELSE "done"

\* run_scraper: after results.send(..) returned Ok the loop goes on with
\* the next cmds.recv(), whatever the result was.
ScraperAfterSend(r) == "recv"

\* Every sender of the command bus is gone: the supervisor's cmd_tx and the
\* clone held by the cron job.
CmdClosed == supPc \in {"closePg", "save", "returned"} /\ schedState # "started"

\* Variant: a command is taken while the previous run is still under way
\* (each Run handled in a task of its own).
ReadyForCommandBusy(p) == p \in {"recv", "run"}

\* run_scraper: the loop comes back to cmds.recv() only after
\* results.send(scraper.run().await).await has returned.
ReadyForCommand(p) == p = "recv"

\* Variant: a lagged receiver is treated like a closed one.
AfterLaggedBreak == "done"

\* run_scraper: RecvError::Lagged(_) => continue
AfterLagged == "recv"

\* run_scraper: cmds.recv().await - Ok(Run), Ok(Shutdown), Err(Lagged),
\* Err(Closed).  A receiver more than CmdCap commands behind has lagged and
\* is moved to the oldest command the bus still retains.
Recv(i) ==
    /\ ReadyForCommand(pc[i])
    /\ pos[i] < Len(cmds) \/ CmdClosed
    /\ IF pos[i] < Len(cmds)
       THEN IF Len(cmds) - pos[i] > CmdCap
            THEN /\ pos' = [pos EXCEPT ![i] = Len(cmds) - CmdCap]
                 /\ pc' = [pc EXCEPT ![i] = AfterLagged]
                 /\ UNCHANGED recvd
            ELSE /\ pos' = [pos EXCEPT ![i] = pos[i] + 1]
                 /\ IF cmds[pos[i] + 1] = "Run"
                    THEN /\ pc' = [pc EXCEPT ![i] = "run"]
                         /\ recvd' = [recvd EXCEPT ![i] = recvd[i] + 1]
                    ELSE /\ pc' = [pc EXCEPT ![i] = "done"]
                         /\ UNCHANGED recvd
       ELSE /\ pc' = [pc EXCEPT ![i] = "done"]
            /\ UNCHANGED <<pos, recvd>>
    /\ UNCHANGED <<envVars, siteVars, cacheVars, storeVars, parseVars, dishVars, dropped, mode, supVars, sigVars, schedState, ticks, tickFailed,
                   cmds, pending, okRuns, errRuns, sent, resChan, resClosed, dbVars>>

\* Variant: the scraper looks its site up again for every run.
ResultSiteIdResolved(i) == get_site_relation(relation)

\* LHScraper: construct_initial_site gives the Site the site_id the scraper
\* was built with, and run copies it to the result.
ResultSiteId(i) == site_id[i]

\* construct_initial_site: Restaurant::new_for_site(&k, site.site_id) for
\* every restaurant of the listing: the site ids the restaurants carry.
RestaurantSiteIds(i) == {ResultSiteId(i)}

\* run_scraper: scraper.run().await returns Ok or Err.
FinishRun(i) ==
    /\ pc[i] = "run"
    /\ \E ok \in BOOLEAN :
        /\ pending' = [pending EXCEPT ![i] =
                           [from |-> i, ok |-> ok, seq |-> recvd[i],
                            site_id |-> IF ok THEN ResultSiteId(i) ELSE NoSite,
                            sites |-> IF ok THEN RestaurantSiteIds(i) ELSE {}]]
        /\ IF ok
           THEN /\ okRuns' = [okRuns EXCEPT ![i] = okRuns[i] + 1]
                /\ UNCHANGED errRuns
           ELSE /\ errRuns' = [errRuns EXCEPT ![i] = errRuns[i] + 1]
                /\ UNCHANGED okRuns
    /\ pc' = [pc EXCEPT ![i] = "send"]
    /\ UNCHANGED <<envVars, siteVars, cacheVars, storeVars, parseVars, dishVars, dropped, mode, supVars, sigVars, schedState, ticks, tickFailed,
                   cmds, pos, recvd, sent, resChan, resClosed, dbVars>>

\* Variant: only an Ok is sent, an Err is dropped by the task.
SendsOnlyOk(r) == r.ok

\* run_scraper: results.send(scraper.run().await) - whatever run returned,
\* Ok or Err, is sent.
Sends(r) == TRUE

\* The receiver of the result channel was closed by handle_result, or
\* dropped when run_oneshot / run_loop returned.
ResOpen == ~resClosed /\ supPc \notin {"closePg", "save", "returned"}

\* Variant: the `break` is missing, the task goes on with the next command.
AfterSendFailedContinue == "recv"

\* run_scraper: `if let Err(e) = results.send(..).await { ..; break; }`
AfterSendFailed == "done"

\* Variant: the channel takes one result more than its capacity.
HasSlotOneMore(s) == Len(s) <= ResCap

\* mpsc::channel(8): a send completes when fewer than ResCap results wait.
HasSlot(s) == Len(s) < ResCap

\* run_scraper: results.send(..).await - Err when the receiver is closed
\* (the task breaks), otherwise the result is queued as soon as the channel
\* has a free slot.
Send(i) ==
    /\ pc[i] = "send"
    /\ IF ~ResOpen
       THEN /\ pc' = [pc EXCEPT ![i] = AfterSendFailed]
            /\ UNCHANGED <<resChan, sent>>
       ELSE IF Sends(pending[i])
       THEN /\ HasSlot(resChan)
            /\ resChan' = Append(resChan, pending[i])
            /\ sent' = [sent EXCEPT ![i] = sent[i] + 1]
            /\ pc' = [pc EXCEPT ![i] = ScraperAfterSend(pending[i])]
       ELSE /\ pc' = [pc EXCEPT ![i] = ScraperAfterSend(pending[i])]
            /\ UNCHANGED <<resChan, sent>>
    /\ pending' = [pending EXCEPT ![i] = NoRes]
    /\ UNCHANGED <<envVars, siteVars, cacheVars, storeVars, parseVars, dishVars, dropped, mode, supVars, sigVars, schedState, ticks, tickFailed,
                   cmds, pos, recvd, okRuns, errRuns, resClosed, dbVars>>

\* The abort asked for by the drop of the JoinSet takes effect: the task is
\* cancelled where it is suspended, or as soon as the poll it is in the
\* middle of on another worker thread comes to an await.
Cancel(i) ==
    /\ dropped
    /\ Alive(i)
    /\ pc' = [pc EXCEPT ![i] = "aborted"]
    /\ UNCHANGED <<envVars, siteVars, cacheVars, storeVars, parseVars, dishVars, dropped, mode, supVars, sigVars, schedState,
                   ticks, tickFailed, cmds, pos, pending, recvd, okRuns,
                   errRuns, sent, resChan, resClosed, dbVars>>

\* scraper.run() panics: the task ends and drops its receiver and sender.
Panic(i) ==
    /\ pc[i] = "run"
    /\ pc' = [pc EXCEPT ![i] = "panicked"]
    /\ UNCHANGED <<envVars, siteVars, cacheVars, storeVars, parseVars, dishVars, dropped, mode, supVars, sigVars, schedState, ticks, tickFailed,
                   cmds, pos, pending, recvd, okRuns, errRuns, sent, resChan,
                   resClosed, dbVars>>

\* ---- the environment: the cron timer ----

\* start_scheduler, the job closure: tx.send(ScrapeCommand::Run).expect(..)
\* The timer is followed for as long as the runs it has asked of the n tasks
\* stay within the limit.
TickWithin(limit) ==
    /\ schedState = "started"
    /\ (ticks + 1) * n <= limit
    /\ ticks' = ticks + 1
    /\ IF Receivers # {}
       THEN cmds' = Append(cmds, "Run") /\ UNCHANGED tickFailed
       ELSE tickFailed' = TRUE /\ UNCHANGED cmds
    /\ UNCHANGED <<envVars, siteVars, cacheVars, storeVars, parseVars, dishVars, dropped, mode, supVars, sigVars, schedState,
                   taskVars, resChan, resClosed, dbVars>>

Tick == TickWithin(MaxRuns)

\* The timer where it may fire more often than CmdCap times.
TickBacklog == TickWithin(MaxBacklog)

\* ---- specifications ----

Supervisor ==
    \/ StartScheduler
    \/ SpawnScraper
    \/ SetupFails
    \/ TriggerOnce
    \/ ObserveShutdown
    \/ RecvResult
    \/ ApplyResult
    \/ SchedShutdown
    \/ StopSend
    \/ AbortAndJoin
    \/ ClosePg
    \/ SaveCache

Scraper(i) ==
    \/ Recv(i)
    \/ FinishRun(i)
    \/ Send(i)
    \/ Cancel(i)

Next ==
    \/ Supervisor
    \/ \E i \in Scrapers : Scraper(i)
    \/ Tick

Spec == Init /\ [][Next]_vars

\* The same program when a scraper's run may panic.
NextPanic ==
    \/ Next
    \/ \E i \in Scrapers : Panic(i)

SpecPanic == Init /\ [][NextPanic]_vars

\* The program as setup_scrapers stands, with its one scraper, next to a
\* database in which the site of the scraper's key is given another id while
\* the program runs.
InitOneScraper == Init /\ n = 1

Reseed ==
    /\ relation = "s1"
    /\ relation' = "s2"
    /\ UNCHANGED <<site_id, resolves, envVars, supVars, taskVars, sigVars,
                   dbVars, mode, schedState, ticks, tickFailed, dropped, cmds,
                   resChan, resClosed, cacheVars, storeVars, parseVars, dishVars>>

\* With the one spawn a failure of setup_scrapers comes before any task
\* exists, so the drop of the JoinSet finds no task to abort.
NextOneScraper ==
    \/ Supervisor
    \/ \E i \in Scrapers : Recv(i) \/ FinishRun(i) \/ Send(i)
    \/ Tick
    \/ Reseed

SpecOneScraper == InitOneScraper /\ [][NextOneScraper]_vars

\* One-shot runs only (no schedule, or a schedule that does not start), with
\* the fairness the runtime gives: the supervisor and every spawned task are
\* scheduled whenever they can take a step, and a run returns (the HTTP
\* client has a request timeout).  No shutdown signal is obliged to come.
InitOneshot == Init /\ schedule # "valid"

SupervisorOneshot ==
    \/ StartScheduler
    \/ SpawnScraper
    \/ SetupFails
    \/ TriggerOnce
    \/ ObserveShutdown
    \/ RecvResult
    \/ ApplyResult
    \/ StopSend
    \/ AbortAndJoin
    \/ ClosePg
    \/ SaveCache

NextOneshot ==
    \/ SupervisorOneshot
    \/ \E i \in Scrapers : Scraper(i)

SpecOneshotFair ==
    /\ InitOneshot
    /\ [][NextOneshot]_vars
    /\ WF_vars(SupervisorOneshot)
    /\ \A i \in Scrapers : WF_vars(Scraper(i))

\* Scheduled runs of a single task, the timer followed for MaxBacklog
\* firings: the task can fall more than CmdCap commands behind, and more
\* than ResCap results can be produced.
InitBacklog == Init /\ schedule = "valid" /\ n = 1

SupervisorLoop ==
    \/ StartScheduler
    \/ SpawnScraper
    \/ SetupFails
    \/ ObserveShutdown
    \/ RecvResult
    \/ ApplyResult
    \/ SchedShutdown
    \/ StopSend
    \/ AbortAndJoin
    \/ ClosePg
    \/ SaveCache

NextBacklog ==
    \/ SupervisorLoop
    \/ \E i \in Scrapers : Recv(i) \/ FinishRun(i) \/ Send(i)
    \/ TickBacklog

SpecBacklog == InitBacklog /\ [][NextBacklog]_vars

\* The same while no shutdown signal arrives, so that the supervisor of the
\* scheduled run stays in Running, with the fairness the runtime gives: the
\* supervisor and every task are scheduled whenever they can take a step;
\* the timer is under no obligation.
SupervisorRunning ==
    \/ StartScheduler
    \/ SpawnScraper
    \/ SetupFails
    \/ RecvResult
    \/ ApplyResult
    \/ ClosePg
    \/ SaveCache

NextRunning ==
    \/ SupervisorRunning
    \/ \E i \in Scrapers : Recv(i) \/ FinishRun(i) \/ Send(i)
    \/ TickBacklog

SpecRunningFair ==
    /\ InitBacklog
    /\ [][NextRunning]_vars
    /\ WF_vars(SupervisorRunning)
    /\ \A i \in Scrapers : WF_vars(Recv(i) \/ FinishRun(i) \/ Send(i))

\* The program in both modes with the fairness of the supervisor once it has
\* left its loop: each await of the shutdown sequence returns.  The tasks and
\* the timer are under no obligation: a run may take for ever.
ShutdownSequence ==
    \/ SchedShutdown
    \/ StopSend
    \/ AbortAndJoin
    \/ ClosePg
    \/ SaveCache

SpecDrainFair == Init /\ [][Next]_vars /\ WF_vars(ShutdownSequence)

\* ---- the response cache: Opts, CacheBuilder and Client of cache.rs ----

\* Opts::cache_mode: a TTL of zero disables caching (NoStore), every other
\* TTL serves whatever the cache holds (ForceCache).
cache_modeAlwaysForce(ttl) == "ForceCache"
cache_mode(ttl) == IF ttl = 0 THEN "NoStore" ELSE "ForceCache"

\* Opts::build_cache, time_to_live(cache_ttl): an entry is expired once the
\* TTL has passed since its insertion.
ExpiredNever(e, ttl, now) == FALSE
Expired(e, ttl, now) == now >= e.inserted + ttl

\* What a lookup of the cache finds: expired entries are not returned, also
\* while they have not been removed yet.
Lookup(c, u, now) ==
    IF c[u] # NoEntry /\ ~Expired(c[u], cache_ttl, now) THEN c[u] ELSE NoEntry

InsertAtEpoch(c, u, v, now) == [c EXCEPT ![u] = [value |-> v, inserted |-> 0]]
\* cache.insert: the entry is stamped with the time of the insert.
Insert(c, u, v, now) == [c EXCEPT ![u] = [value |-> v, inserted |-> now]]

Keys(c) == {u \in Urls : c[u] # NoEntry}

Restrict(c, K) == [u \in Urls |-> IF u \in K THEN c[u] ELSE NoEntry]

\* The entries a lookup can still find.
Unexpired(c, now) == Restrict(c, {u \in Urls : Lookup(c, u, now) # NoEntry})

\* run_pending_tasks: expired entries are removed, and max_capacity
\* (build_cache) is enforced; which entries are evicted is the cache's choice.
RunPendingTasks(c, now) ==
    LET p == Unexpired(c, now)
    IN  IF Cardinality(Keys(p)) <= cache_capacity
        THEN {p}
        ELSE {Restrict(p, K) :
                K \in {L \in SUBSET Keys(p) : Cardinality(L) = cache_capacity}}

\* The ways to list the entries of a cache: iteration order is unspecified.
Listings(c) ==
    LET k == Cardinality(Keys(c))
    IN  {[i \in 1..k |-> [key |-> o[i], value |-> c[o[i]].value]] :
            o \in {f \in [1..k -> Keys(c)] :
                    \A i, j \in 1..k : i # j => f[i] # f[j]}}

from_cacheUnpurged(c, now) == Listings(c)

\* CacheBuilder::from_cache: run_pending_tasks, then every entry the
\* iterator yields is pushed to the store.
from_cache(c, now) == UNION {Listings(r) : r \in RunPendingTasks(c, now)}

loadWhatDecodes(f) == [ok |-> f.kind \in {"valid", "malformed"}, store |-> f.store]

\* CacheBuilder::load: the store of the file, or an error when the file
\* cannot be opened or decoded.
load(f) ==
    IF f.kind = "valid" THEN [ok |-> TRUE, store |-> f.store]
    ELSE [ok |-> FALSE, store |-> <<>>]

RECURSIVE InsertAllButLast(_, _, _)
InsertAllButLast(c, s, now) ==
    IF Len(s) <= 1 THEN c
    ELSE InsertAllButLast(Insert(c, Head(s).key, Head(s).value, now),
                          Tail(s), now)

\* The loop of populate_cache: cache.insert for every loaded entry.
RECURSIVE InsertAll(_, _, _)
InsertAll(c, s, now) ==
    IF s = <<>> THEN c
    ELSE InsertAll(Insert(c, Head(s).key, Head(s).value, now), Tail(s), now)

\* CacheBuilder::populate_cache: on a load error the cache is returned
\* unmodified.
populate_cache(f, c, now) ==
    IF load(f).ok THEN InsertAll(c, load(f).store, now) ELSE c

\* The stores a cache file may hold before the first build.
InitialStores ==
    UNION {Listings(c) :
            c \in [Urls -> {NoEntry} \cup
                           {[value |-> b, inserted |-> 0] : b \in Bodies}]}

\* A file that was cut off after its first entry.
CutOffFile == [kind |-> "malformed", store |-> <<[key |-> "u1", value |-> "a"]>>]

Files ==
    {[kind |-> k, store |-> <<>>] : k \in {"missing", "unreadable", "malformed"}}
    \cup {CutOffFile}
    \cup {[kind |-> "valid", store |-> s] : s \in InitialStores}

InitCache ==
    /\ InitScrape
    /\ schedule = "none"
    /\ n = 1
    /\ cache_ttl \in 0..MaxTtl
    /\ cache_capacity \in 0..MaxCapacity
    /\ cache_path \in {NoPath, "cache.bin"}
    /\ clock = 0
    /\ file \in Files
    /\ client = "unbuilt"
    /\ builtAt = 0
    /\ cache = EmptyCache
    /\ last = NoCall
    /\ saveRes = "none"
    /\ saveDropped = 0
    /\ NoClones
    /\ StoreUnused
    /\ ParseUnused
    /\ DishUnused

\* Client::build: with a path the new cache is populated from the file.
build ==
    /\ client = "unbuilt"
    /\ cache' = IF cache_path = NoPath THEN EmptyCache
                ELSE populate_cache(file, EmptyCache, clock)
    /\ client' = "built"
    /\ builtAt' = clock
    /\ last' = NoCall
    /\ saveDropped' = 0
    /\ storedBy' = [u \in Urls |-> NoStorer]
    /\ UNCHANGED <<scrapeVars, storeVars, parseVars, dishVars, dishVars, optVars, clock, file, saveRes, handle, copies,
                   flight>>

\* Client::get_as_string through the cache middleware. ForceCache: an entry
\* the lookup finds is returned as it is, anything else is fetched and, when
\* the response is storable, put into the cache (insert, then
\* run_pending_tasks). NoStore: the request goes to the network and nothing
\* is stored. A network failure is returned as the error.
get_as_string(u) ==
    /\ client = "built"
    /\ IF cache_mode(cache_ttl) = "ForceCache" /\ Lookup(cache, u, clock) # NoEntry
       THEN /\ last' = [url |-> u, net |-> 0,
                        res |-> Lookup(cache, u, clock).value]
            /\ UNCHANGED cache
       ELSE \E r \in Bodies \cup {"error"}, storable \in BOOLEAN :
            /\ last' = [url |-> u, net |-> 1, res |-> r]
            /\ IF r # "error" /\ storable /\ cache_mode(cache_ttl) = "ForceCache"
               THEN cache' \in RunPendingTasks(Insert(cache, u, r, clock), clock)
               ELSE UNCHANGED cache
    /\ UNCHANGED <<scrapeVars, storeVars, parseVars, dishVars, dishVars, optVars, clock, file, client, builtAt, saveRes,
                   saveDropped, cloneVars>>

\* The cache's own maintenance, whenever it runs.
Housekeeping ==
    /\ client = "built"
    /\ cache' \in RunPendingTasks(cache, clock)
    /\ cache' # cache
    /\ UNCHANGED <<scrapeVars, storeVars, parseVars, dishVars, dishVars, optVars, clock, file, client, builtAt, last, saveRes,
                   saveDropped, cloneVars>>

HasPathAlways(p) == TRUE

\* match self.cache_path: Some(p) or None.
HasPath(p) == p # NoPath

\* Client::save consumes the client. With a path: from_cache, then
\* CacheBuilder::save, where File::create may fail (the file is left as it
\* was) and the write may fail after the file was truncated.
save ==
    /\ client = "built"
    /\ \A t \in Clones : flight[t] = NoFlight
    /\ IF ~HasPath(cache_path)
       THEN /\ saveRes' = "ok"
            /\ saveDropped' = Cardinality(Keys(cache))
            /\ UNCHANGED file
       ELSE \/ /\ \E s \in from_cache(cache, clock) :
                    /\ file' = [kind |-> "valid", store |-> s]
                    /\ saveDropped' = Cardinality(Keys(cache)) - Len(s)
               /\ saveRes' = "ok"
            \/ /\ saveRes' = "err"
               /\ saveDropped' = Cardinality(Keys(cache))
               /\ UNCHANGED file
            \/ /\ saveRes' = "err"
               /\ saveDropped' = Cardinality(Keys(cache))
               /\ file' = [kind |-> "malformed", store |-> <<>>]
    /\ client' = "unbuilt"
    /\ builtAt' = 0
    /\ cache' = EmptyCache
    /\ last' = NoCall
    /\ handle' = [t \in Clones |-> "none"]
    /\ copies' = [t \in Clones |-> EmptyCache]
    /\ UNCHANGED <<scrapeVars, storeVars, parseVars, dishVars, dishVars, optVars, clock, flight, storedBy>>

\* Time passes.
AdvanceClock ==
    /\ clock < MaxClock
    /\ clock' = clock + 1
    /\ UNCHANGED <<scrapeVars, storeVars, parseVars, dishVars, dishVars, optVars, file, client, builtAt, cache, last, saveRes,
                   saveDropped, cloneVars>>

NextCache ==
    \/ build
    \/ \E u \in Urls : get_as_string(u)
    \/ Housekeeping
    \/ save
    \/ AdvanceClock

SpecCache == InitCache /\ [][NextCache]_vars

\* ---- the clones of the client held by the scraper tasks ----

\* Variant: every clone of the client has a cache of its own.
ClientCloneOwnCache(t) == "own"

\* #[derive(Clone)] on Client: the clone holds the middleware and the cache
\* handle of the client, both of which refer to the one cache build made.
ClientClone(t) == "client"

\* The cache the clone of task t refers to.
Target(t) == IF handle[t] = "client" THEN cache ELSE copies[t]

\* setup_scrapers: the scraper of task t is made with client.clone().
Clone(t) ==
    /\ client = "built"
    /\ handle[t] = "none"
    /\ handle' = [handle EXCEPT ![t] = ClientClone(t)]
    /\ copies' = IF ClientClone(t) = "client" THEN copies
                 ELSE [copies EXCEPT ![t] = cache]
    /\ UNCHANGED <<scrapeVars, storeVars, parseVars, dishVars, dishVars, optVars, clock, file, client, builtAt, cache,
                   last, saveRes, saveDropped, flight, storedBy>>

\* get_as_string by task t, up to the lookup: a hit returns, anything else
\* leaves the task waiting for the network.
Begin(t, u) ==
    /\ client = "built"
    /\ handle[t] # "none"
    /\ flight[t] = NoFlight
    /\ IF /\ cache_mode(cache_ttl) = "ForceCache"
          /\ Lookup(Target(t), u, clock) # NoEntry
       THEN /\ last' = [url |-> u, net |-> 0,
                        res |-> Lookup(Target(t), u, clock).value]
            /\ UNCHANGED flight
       ELSE /\ flight' = [flight EXCEPT ![t] = u]
            /\ UNCHANGED last
    /\ UNCHANGED <<scrapeVars, storeVars, parseVars, dishVars, dishVars, optVars, clock, file, client, builtAt, cache,
                   saveRes, saveDropped, handle, copies, storedBy>>

\* The put of the middleware of task t: insert, run_pending_tasks.
Put(t, u, r) ==
    IF handle[t] = "client"
    THEN /\ cache' \in RunPendingTasks(Insert(cache, u, r, clock), clock)
         /\ UNCHANGED copies
    ELSE /\ \E c \in RunPendingTasks(Insert(copies[t], u, r, clock), clock) :
              copies' = [copies EXCEPT ![t] = c]
         /\ UNCHANGED cache

\* get_as_string by task t, from the answer of the network on: a storable
\* response is put into the cache, a failure is returned as the error.
Complete(t) ==
    /\ flight[t] # NoFlight
    /\ \E r \in Bodies \cup {"error"}, storable \in BOOLEAN :
        /\ last' = [url |-> flight[t], net |-> 1, res |-> r]
        /\ IF r # "error" /\ storable /\ cache_mode(cache_ttl) = "ForceCache"
           THEN /\ Put(t, flight[t], r)
                /\ storedBy' = [storedBy EXCEPT ![flight[t]] = t]
           ELSE UNCHANGED <<cache, copies, storedBy>>
    /\ flight' = [flight EXCEPT ![t] = NoFlight]
    /\ UNCHANGED <<scrapeVars, storeVars, parseVars, dishVars, dishVars, optVars, clock, file, client, builtAt, saveRes,
                   saveDropped, handle>>

\* The task is cancelled while it waits for the network: nothing is put.
Abort(t) ==
    /\ flight[t] # NoFlight
    /\ flight' = [flight EXCEPT ![t] = NoFlight]
    /\ UNCHANGED <<scrapeVars, storeVars, parseVars, dishVars, dishVars, optVars, clock, file, client, builtAt, cache,
                   last, saveRes, saveDropped, handle, copies, storedBy>>

\* A client with a cache path, a TTL > 0, room for every url and no cache
\* file yet.
InitShared ==
    /\ InitCache
    /\ cache_ttl > 0
    /\ cache_capacity >= Cardinality(Urls)
    /\ cache_path # NoPath
    /\ file = NoFile

\* One run of the program: the client is built once.
NextShared ==
    \/ (saveRes = "none" /\ build)
    \/ \E t \in Clones : Clone(t)
    \/ \E t \in Clones, u \in Urls : Begin(t, u)
    \/ \E t \in Clones : Complete(t)
    \/ \E t \in Clones : Abort(t)
    \/ Housekeeping
    \/ save
    \/ AdvanceClock

SpecShared == InitShared /\ [][NextShared]_vars

\* ---- the store: update_restaurants and the readers of db.rs ----

\* tags.join(","): the list of tags flattened to comma separated values.
RECURSIVE Join(_)
Join(tags) ==
    IF tags = <<>> THEN ""
    ELSE IF Len(tags) = 1 THEN tags[1]
    ELSE tags[1] \o "," \o Join(Tail(tags))

\* The orders in which the drain of a map can yield its values.
Drains(m) ==
    {s \in [1..Cardinality(m) -> m] :
        \A i, j \in 1..Cardinality(m) : i # j => s[i] # s[j]}

DishRowsFromButLast(drained) ==
    [dish_ids |-> [i \in 1..(Len(drained) - 1) |-> drained[i].dish_id],
     restaurant_ids |->
         [i \in 1..(Len(drained) - 1) |-> drained[i].restaurant_id],
     names |-> [i \in 1..(Len(drained) - 1) |-> drained[i].name],
     tags |-> [i \in 1..(Len(drained) - 1) |-> Join(drained[i].tags)]]

\* DishRows::from: one column per field of Dish, a dish at the same index in
\* every column, in the order the map was drained.
DishRowsFrom(drained) ==
    [dish_ids |-> [i \in DOMAIN drained |-> drained[i].dish_id],
     restaurant_ids |-> [i \in DOMAIN drained |-> drained[i].restaurant_id],
     names |-> [i \in DOMAIN drained |-> drained[i].name],
     tags |-> [i \in DOMAIN drained |-> Join(drained[i].tags)]]

\* select * from unnest(...): the columns put back together as rows.
Unnest(drs) ==
    {DishRow(drs.restaurant_ids[i], drs.dish_ids[i], drs.names[i],
             drs.tags[i]) : i \in DOMAIN drs.dish_ids}

\* The dish table has "on delete cascade" on its restaurant: the dishes of a
\* deleted restaurant are deleted with it.
OnDeleteCascade(dishes, gone) == {d \in dishes : d.restaurant_id \notin gone}

DeleteRestaurantsOfSite(t, site, name) ==
    LET gone == {r \in t.restaurant : r.site_id = site}
    IN  Tables(t.restaurant \ gone,
               OnDeleteCascade(t.dish, get_restaurant_ids(gone)))

\* delete from restaurant where site_id = $1 and restaurant_name = $2
DeleteRestaurant(t, site, name) ==
    LET gone == {r \in t.restaurant :
                    r.site_id = site /\ r.restaurant_name = name}
    IN  Tables(t.restaurant \ gone,
               OnDeleteCascade(t.dish, get_restaurant_ids(gone)))

\* insert into restaurant (site_id, restaurant_id, restaurant_name, ...)
InsertRestaurant(t, r) ==
    Tables(t.restaurant
               \cup {RestaurantRow(r.site_id, r.restaurant_id, r.name)},
           t.dish)

\* insert into dish (...) select * from unnest(...)
InsertDishes(t, drs) == Tables(t.restaurant, t.dish \cup Unnest(drs))

RollbackKeepsWork(committed, t) == t

\* A statement that fails makes update_restaurants return through `?`: the
\* transaction is dropped without a commit and the tables stay as committed.
Rollback(committed, t) == committed

\* The store holds one of the initial tables and a result is at hand.
InitStore ==
    /\ InitScrape
    /\ schedule = "none"
    /\ n = 1
    /\ CacheUnused
    /\ update \in Results
    /\ pg \in InitialTables
    /\ tx = NoTx
    /\ txPc = "idle"
    /\ txIdx = 0
    /\ applies = 0
    /\ applyRes = "none"
    /\ commitLog = <<>>
    /\ hist = {pg}
    /\ failedAt = "none"
    /\ rdPc = "idle"
    /\ seen = NoRows
    /\ ParseUnused
    /\ DishUnused

\* update_restaurants is called with the result.
update_restaurants ==
    /\ txPc = "idle"
    /\ applies < MaxApplies
    /\ txPc' = "begin"
    /\ UNCHANGED <<scrapeVars, cacheVars, parseVars, dishVars, readerVars, update, pg, tx, txIdx,
                   applies, applyRes, commitLog, hist, failedAt>>

\* pg.begin(): the transaction starts from the committed tables.
pg_begin ==
    /\ txPc = "begin"
    /\ tx' = pg
    /\ txIdx' = 1
    /\ txPc' = IF update = <<>> THEN "commit" ELSE "delete"
    /\ UNCHANGED <<scrapeVars, cacheVars, parseVars, dishVars, readerVars, update, pg, applies,
                   applyRes, commitLog, hist, failedAt>>

\* The delete of the loop body, for the restaurant the loop is at.
delete_restaurant ==
    /\ txPc = "delete"
    /\ tx' = DeleteRestaurant(tx, update[txIdx].site_id, update[txIdx].name)
    /\ txPc' = "insert"
    /\ UNCHANGED <<scrapeVars, cacheVars, parseVars, dishVars, readerVars, update, pg, txIdx,
                   applies, applyRes, commitLog, hist, failedAt>>

\* The insert of the restaurant.
insert_restaurant ==
    /\ txPc = "insert"
    /\ tx' = InsertRestaurant(tx, update[txIdx])
    /\ txPc' = "dishes"
    /\ UNCHANGED <<scrapeVars, cacheVars, parseVars, dishVars, readerVars, update, pg, txIdx,
                   applies, applyRes, commitLog, hist, failedAt>>

\* The insert of all its dishes; the loop moves on to the next restaurant.
insert_dishes ==
    /\ txPc = "dishes"
    /\ \E drained \in Drains(update[txIdx].dishes) :
           tx' = InsertDishes(tx, DishRowsFrom(drained))
    /\ txIdx' = txIdx + 1
    /\ txPc' = IF txIdx = Len(update) THEN "commit" ELSE "delete"
    /\ UNCHANGED <<scrapeVars, cacheVars, parseVars, dishVars, readerVars, update, pg, applies,
                   applyRes, commitLog, hist, failedAt>>

\* tx.commit() succeeds: the work of the transaction becomes the committed
\* tables in one step.
tx_commit ==
    /\ txPc = "commit"
    /\ pg' = tx
    /\ tx' = NoTx
    /\ txPc' = "idle"
    /\ txIdx' = 0
    /\ applies' = applies + 1
    /\ applyRes' = "ok"
    /\ commitLog' = Append(commitLog, tx)
    /\ hist' = hist \cup {tx}
    /\ UNCHANGED <<scrapeVars, cacheVars, parseVars, dishVars, readerVars, update, failedAt>>

\* pg.begin(), a statement or the commit fails: update_restaurants returns
\* the error.
query_error ==
    /\ txPc \in {"begin", "delete", "insert", "dishes", "commit"}
    /\ pg' = Rollback(pg, tx)
    /\ tx' = NoTx
    /\ txPc' = "idle"
    /\ txIdx' = 0
    /\ applies' = applies + 1
    /\ applyRes' = "err"
    /\ hist' = hist \cup {pg'}
    /\ failedAt' = txPc
    /\ UNCHANGED <<scrapeVars, cacheVars, parseVars, dishVars, readerVars, update, commitLog>>

\* A request for the dishes of the site: the handler opens a transaction
\* with get_tx and calls list_dishes_for_site_by_id.
get_tx ==
    /\ rdPc = "idle"
    /\ rdPc' = "restaurants"
    /\ seen' = NoRows
    /\ UNCHANGED <<scrapeVars, cacheVars, parseVars, dishVars, writerVars>>

\* select * from restaurant where site_id = $1: the statement reads the
\* tables as committed when it runs (the transaction was begun without an
\* isolation level, which for Postgres is READ COMMITTED).
get_restaurants_for_site ==
    /\ rdPc = "restaurants"
    /\ seen' = [seen EXCEPT
                  !.restaurant = {r \in pg.restaurant : r.site_id = Site}]
    /\ rdPc' = "dishes"
    /\ UNCHANGED <<scrapeVars, cacheVars, parseVars, dishVars, writerVars>>

\* select ... from dish where restaurant_id in (the ids just read): again
\* the tables as committed when the statement runs.
get_dishes_for_site ==
    /\ rdPc = "dishes"
    /\ seen' = [seen EXCEPT
                  !.dish = DishesOf(pg, get_restaurant_ids(seen.restaurant))]
    /\ rdPc' = "done"
    /\ UNCHANGED <<scrapeVars, cacheVars, parseVars, dishVars, writerVars>>

\* list_dishes_for_site_by_id returns what it read.
list_dishes_for_site_by_id ==
    /\ rdPc = "done"
    /\ rdPc' = "idle"
    /\ UNCHANGED <<scrapeVars, cacheVars, parseVars, dishVars, writerVars, seen>>

NextStore ==
    \/ update_restaurants
    \/ pg_begin
    \/ delete_restaurant
    \/ insert_restaurant
    \/ insert_dishes
    \/ tx_commit
    \/ query_error
    \/ get_tx
    \/ get_restaurants_for_site
    \/ get_dishes_for_site
    \/ list_dishes_for_site_by_id

SpecStore == InitStore /\ [][NextStore]_vars

\* ---- the reference scraper: LHScraper::parse_site of fawenah.rsMap ----

\* parse_site is about to run on some listing and some menus of the day.
InitParse ==
    /\ InitScrape
    /\ schedule = "none"
    /\ n = 1
    /\ CacheUnused
    /\ StoreUnused
    /\ DishUnused
    /\ listing \in SUBSET ListingNames
    /\ \E keys \in SUBSET MenuKeys : dayMenus = [k \in keys |-> DayMenu(k)]
    /\ menus = NoMenus
    /\ rsMap = NoRestaurants
    /\ todo = {}
    /\ skipped = {}
    /\ psPc = "links"
    /\ parseRes = "none"

\* construct_initial_site: one restaurant per name of the listing, without
\* dishes.
construct_initial_site ==
    /\ psPc = "links"
    /\ rsMap' = [name \in listing |-> {}]
    /\ psPc' = "menus"
    /\ UNCHANGED <<scrapeVars, cacheVars, storeVars, dishVars, listing, dayMenus, menus, todo,
                   skipped, parseRes>>

\* The menus of the day are downloaded and their keys stripped.
get_menus ==
    /\ psPc = "menus"
    /\ menus' \in strip_key_suffix(dayMenus)
    /\ todo' = DOMAIN menus'
    /\ psPc' = "join"
    /\ UNCHANGED <<scrapeVars, cacheVars, storeVars, dishVars, listing, dayMenus, rsMap,
                   skipped, parseRes>>

\* A request or the decoding of its answer fails: parse_site returns the
\* error through `?`.
fetch_error ==
    /\ psPc \in {"links", "menus"}
    /\ psPc' = "done"
    /\ parseRes' = "err"
    /\ UNCHANGED <<scrapeVars, cacheVars, storeVars, dishVars, listing, dayMenus, menus, rsMap, todo,
                   skipped>>

\* One turn of `for (k, v) in menus.drain()`: the items of an entry whose
\* key is the name of a restaurant become dishes of it; any other entry is
\* logged and left out.
join_entry ==
    /\ psPc = "join"
    /\ \E k \in todo :
        /\ todo' = todo \ {k}
        /\ IF k \in DOMAIN rsMap
           THEN /\ rsMap' = [rsMap EXCEPT ![k] =
                            rsMap[k] \cup {DishOfItem(menus[k], idx, k) :
                                           idx \in DOMAIN menus[k].items}]
                /\ UNCHANGED skipped
           ELSE /\ skipped' = skipped \cup {k}
                /\ UNCHANGED rsMap
    /\ UNCHANGED <<scrapeVars, cacheVars, storeVars, dishVars, listing, dayMenus, menus, psPc,
                   parseRes>>

\* The loop is over: parse_site returns Ok(site) with the restaurants.
parse_site ==
    /\ psPc = "join"
    /\ todo = {}
    /\ psPc' = "done"
    /\ parseRes' = "ok"
    /\ UNCHANGED <<scrapeVars, cacheVars, storeVars, dishVars, listing, dayMenus, menus, rsMap, todo,
                   skipped>>

NextParse ==
    \/ construct_initial_site
    \/ get_menus
    \/ fetch_error
    \/ join_entry
    \/ parse_site

SpecParse == InitParse /\ [][NextParse]_vars

\* ---- showing a dish ----

\* Some dish, not shown yet.
InitDish ==
    /\ InitScrape
    /\ CacheUnused
    /\ StoreUnused
    /\ ParseUnused
    /\ shownDish \in [name : DishNames, description : Descriptions]
    /\ shown = <<>>

\* format!("{d}"): the text is what fmt writes.
format ==
    /\ shown = <<>>
    /\ shown' = <<fmt(shownDish)>>
    /\ UNCHANGED <<scrapeVars, cacheVars, storeVars, parseVars, shownDish>>

NextDish == format

SpecDish == InitDish /\ [][NextDish]_vars

TypeOK ==
    /\ supPc \in {"start", "setup", "trigger", "select", "apply",
                  "schedShutdown", "stopSend", "abort", "closePg", "save",
                  "returned"}
    /\ mode \in {"undecided", "oneshot", "loop"}
    /\ \A i \in Scrapers :
        pc[i] \in {"unspawned", "recv", "run", "send", "done", "aborted",
                   "panicked"}
    /\ Len(resChan) <= ResCap
    /\ ticks \in 0..MaxRuns
    /\ ticks * n <= MaxRuns

\* ---- claims ----

\* Number of results of task i the supervisor has received.
Got(i) == gotOk[i] + gotErr[i]

RECURSIVE SumGot(_)
SumGot(k) == IF k = 0 THEN 0 ELSE Got(k) + SumGot(k - 1)

\* Number of results the supervisor has received.
TotalGot == SumGot(MaxScrapers)

\* Number of results of task i with outcome ok waiting in the channel s.
RECURSIVE InChan(_, _, _)
InChan(s, i, ok) ==
    IF s = <<>> THEN 0
    ELSE (IF Head(s).from = i /\ Head(s).ok = ok THEN 1 ELSE 0)
         + InChan(Tail(s), i, ok)

\* Number of Ok / Err results of task i that were put on the result channel.
OkResults(i) == gotOk[i] + InChan(resChan, i, TRUE)
ErrResults(i) == gotErr[i] + InChan(resChan, i, FALSE)

\* Number of runs of task i that returned.
Finished(i) == okRuns[i] + errRuns[i]

\* Number of update_restaurants calls for site i.
Applies(i) == commits[i] + failures[i]

Draining == supPc \in {"schedShutdown", "stopSend", "abort"}
Stopped == supPc \in {"closePg", "save", "returned"}

\* The step in which handle_result receives an Err from the channel.
RecvErrStep ==
    /\ supPc = "select"
    /\ resChan # <<>>
    /\ ~Head(resChan).ok
    /\ resChan' = Tail(resChan)

\* C1: in one-shot mode without a schedule, as long as no shutdown signal is
\* observed, at most one Run is ever broadcast, and when the supervisor
\* drains (broadcasts Shutdown) it has broadcast exactly one Run and consumed
\* exactly n results, one per task; and once the Run is triggered the
\* Shutdown broadcast follows without any signal being needed.
C1_OneshotExit ==
    /\ [](schedule = "none" /\ sig # "observed" =>
            /\ NumRuns <= 1
            /\ (Draining \/ ShutdownSent) =>
                 /\ NumRuns = 1
                 /\ TotalGot = n
                 /\ iter = n
                 /\ \A i \in 1..n : Got(i) = 1)
    /\ (schedule = "none" /\ supPc = "trigger")
          ~> (ShutdownSent \/ sig = "observed")

C1_Witness ==
    /\ schedule = "none"
    /\ n = 2
    /\ sig = "none"
    /\ ShutdownSent
    /\ NumRuns = 1
    /\ TotalGot = 2
    /\ gotErr[1] = 1

\* C2: a task never has more results sent than Runs received, is never more
\* than one result behind, and is behind only while it is still handling
\* the Run or when the result channel is no longer open.
C2_OneResultPerRun ==
    \A i \in Scrapers :
        /\ sent[i] <= recvd[i]
        /\ recvd[i] <= sent[i] + 1
        /\ sent[i] < recvd[i] => (pc[i] \in {"run", "send"} \/ ~ResOpen)

C2_Witness ==
    \E i \in Scrapers :
        /\ recvd[i] = 2
        /\ sent[i] = 2
        /\ pc[i] = "recv"
        /\ ResOpen

\* C3: a task that has an Err to report and finds the result channel open
\* puts that Err on the channel and goes back to waiting for a command; a
\* task leaves its loop only after Shutdown was broadcast or the result
\* channel was closed.
C3_ErrKeepsLoop ==
    /\ [](\A i \in Scrapers : pc[i] = "done" => (ShutdownSent \/ ~ResOpen))
    /\ [][\A i \in Scrapers :
            (/\ pc[i] = "send"
             /\ ~pending[i].ok
             /\ ResOpen
             /\ pc'[i] # "send"
             /\ pc'[i] # "aborted")
            => (/\ pc'[i] = "recv"
                /\ resChan' = Append(resChan, pending[i]))]_vars

\* A task whose first run failed (the one result the supervisor has from it
\* is an Err) has received and finished a second run.
C3_Witness ==
    \E i \in Scrapers :
        /\ recvd[i] = 2
        /\ Finished(i) = 2
        /\ gotErr[i] = 1
        /\ gotOk[i] = 0

\* C4: with two tasks, task 1 failing and task 2 succeeding, once both have
\* handled the single Run the channel has carried exactly one Err (from 1)
\* and one Ok (from 2); and receiving an Err never makes the supervisor leave
\* Running (it leaves only when that was the last result of a one-shot run).
C4_Isolation ==
    /\ []((/\ n = 2
           /\ NumRuns = 1
           /\ errRuns[1] = 1 /\ okRuns[1] = 0
           /\ okRuns[2] = 1 /\ errRuns[2] = 0
           /\ \A i \in 1..2 : pc[i] = "recv" /\ recvd[i] = 1)
          => (/\ ErrResults(1) = 1 /\ OkResults(1) = 0
              /\ OkResults(2) = 1 /\ ErrResults(2) = 0))
    /\ [][RecvErrStep =>
            \/ supPc' = "select"
            \/ (mode = "oneshot" /\ iter' = n /\ supPc' = "stopSend")]_vars

\* Both results of the cycle were received and the supervisor of a
\* scheduled run is still in Running.
C4_Witness ==
    /\ n = 2
    /\ mode = "loop"
    /\ NumRuns = 1
    /\ gotErr[1] = 1 /\ gotOk[1] = 0
    /\ gotOk[2] = 1 /\ gotErr[2] = 0
    /\ commits[2] = 1
    /\ supPc = "select"

\* C5: receiving an Err triggers no apply, leaves the stored data and the
\* result of the run untouched; and a one-shot run of two tasks, task 1
\* succeeding and task 2 failing, that no signal interrupted returns success
\* after exactly one apply call, for site 1.
C5_ErrOnlyLogged ==
    /\ [][RecvErrStep =>
            /\ commits' = commits
            /\ failures' = failures
            /\ stored' = stored
            /\ res' = res
            /\ supPc' # "apply"]_vars
    /\ []((/\ mode = "oneshot"
           /\ n = 2
           /\ sig # "observed"
           /\ supPc = "returned"
           /\ okRuns[1] = 1 /\ errRuns[1] = 0
           /\ errRuns[2] = 1 /\ okRuns[2] = 0)
          => (/\ Applies(1) = 1
              /\ Applies(2) = 0
              /\ runResult = "ok"))

C5_Witness ==
    /\ schedule = "none"
    /\ n = 2
    /\ sig = "none"
    /\ supPc = "returned"
    /\ okRuns[1] = 1 /\ errRuns[1] = 0
    /\ errRuns[2] = 1 /\ okRuns[2] = 0
    /\ gotErr[2] = 1
    /\ commits[1] = 1
    /\ runResult = "ok"

\* C6: the step that ends an apply, committed or failed, takes the
\* supervisor back to the select (or, after the last result of a one-shot
\* run, on to the shutdown), changes neither the result of the run nor any
\* scraper task, and a failed apply leaves the stored data as it was.
C6_ApplyFailureLogged ==
    [][(supPc = "apply" /\ supPc' # "apply") =>
         /\ \/ supPc' = "select"
            \/ (mode = "oneshot" /\ iter' = n /\ supPc' = "stopSend")
         /\ res' = res
         /\ pc' = pc
         /\ pending' = pending
         /\ failures' # failures => stored' = stored]_vars

\* In a scheduled run the apply of a site's first result failed, the result
\* of the next cycle was committed, and the supervisor is still in Running.
C6_Witness ==
    \E i \in Scrapers :
        /\ mode = "loop"
        /\ failures[i] = 1
        /\ commits[i] = 1
        /\ stored[i] = 2
        /\ supPc = "select"

\* C7: a malformed schedule aborts startup: the supervisor does not enter
\* one-shot mode, spawns no task, broadcasts no Run, and run returns an error.
C7_MalformedAborts ==
    schedule = "malformed" =>
        /\ mode # "oneshot"
        /\ spawned = 0
        /\ NumRuns = 0
        /\ supPc = "returned" => runResult = "err"

\* C8: after leaving Running in scheduled mode, Shutdown is broadcast only
\* when the timer is stopped, tasks are ended by the supervisor only after
\* Shutdown was broadcast, the connection is closed only after the timer was
\* stopped, Shutdown broadcast and every task terminated, and the cache is
\* flushed only after that, with no task still running.
C8_DrainOrder ==
    (mode = "loop" /\ resClosed) =>
        /\ ShutdownSent => schedState = "stopped"
        /\ (\E i \in Scrapers : pc[i] = "aborted") => ShutdownSent
        /\ pgClosed =>
             /\ schedState = "stopped"
             /\ ShutdownSent
             /\ \A i \in 1..n : Terminated(i)
        /\ cacheSaved # "none" =>
             /\ pgClosed
             /\ \A i \in Scrapers : ~Alive(i)

\* C9: a task that was in the middle of a run when the shutdown signal was
\* observed leaves that run only by the run returning, and when the task has
\* terminated, or the supervisor is Stopped, every run it began has returned.
C9_Cooperative ==
    /\ [][\A i \in busyAtSignal :
            pc[i] = "run" => pc'[i] \in {"run", "send"}]_vars
    /\ [](\A i \in busyAtSignal :
            (Terminated(i) \/ Stopped) => Finished(i) = recvd[i])

\* C10: when run has returned after the supervisor found the result channel
\* closed (it closed its receiver without having observed a shutdown
\* signal), run has returned success.
C10_ClosedIsSuccess ==
    (supPc = "returned" /\ resClosed /\ sig # "observed") => runResult = "ok"

\* C11: a task waiting for a command on a closed, empty command channel
\* leaves its loop; a task whose send finds the result channel closed
\* leaves its loop without putting anything on the channel; and a task that
\* has left its loop receives no further command and sends nothing more.
C11_CleanExit ==
    /\ [][\A i \in Scrapers :
            (/\ pc[i] = "recv"
             /\ pos[i] = Len(cmds)
             /\ CmdClosed
             /\ pc'[i] # "recv"
             /\ pc'[i] # "aborted")
            => (pc'[i] = "done" /\ recvd'[i] = recvd[i])]_vars
    /\ [][\A i \in Scrapers :
            (/\ pc[i] = "send"
             /\ ~ResOpen
             /\ pc'[i] # "send"
             /\ pc'[i] # "aborted")
            => (/\ pc'[i] = "done"
                /\ resChan' = resChan
                /\ sent'[i] = sent[i])]_vars
    /\ [][\A i \in Scrapers :
            pc[i] = "done"
            => (/\ pc'[i] = "done"
                /\ pos'[i] = pos[i]
                /\ recvd'[i] = recvd[i]
                /\ sent'[i] = sent[i])]_vars

\* One task ended on the closed command channel (no Shutdown was ever
\* broadcast and it has no unsent result).
C11_Witness ==
    \E i \in Scrapers :
        /\ pc[i] = "done"
        /\ ~ShutdownSent
        /\ sent[i] = recvd[i]
        /\ CmdClosed

\* A task ended because its send found the result channel closed.
C11_SendFailed ==
    \E i \in Scrapers :
        /\ pc[i] = "done"
        /\ Finished(i) = recvd[i]
        /\ sent[i] < recvd[i]

\* A receiver that is more than CmdCap commands behind: its next receive
\* reports Lagged.
Lagging(i) == pc[i] = "recv" /\ Len(cmds) - pos[i] > CmdCap

\* C12: the receive of a lagging task moves its receiver to the oldest
\* command the bus retains, counts no Run as received and leaves the task
\* waiting for a command; the receive that follows takes exactly the next
\* retained command; and a task never counts more Runs than it is past.
C12_LagKeepsLoop ==
    /\ [][\A i \in Scrapers :
            (Lagging(i) /\ pc'[i] # "aborted" /\ pos'[i] # pos[i])
            => (/\ pc'[i] = "recv"
                /\ pos'[i] = Len(cmds) - CmdCap
                /\ recvd'[i] = recvd[i])]_vars
    /\ [][\A i \in Scrapers :
            (pc[i] = "recv" /\ ~Lagging(i) /\ pos'[i] # pos[i])
            => (/\ pos'[i] = pos[i] + 1
                /\ cmds[pos'[i]] = "Run" => (pc'[i] = "run"
                                             /\ recvd'[i] = recvd[i] + 1))]_vars
    /\ [](\A i \in Scrapers : recvd[i] <= pos[i])

\* A task that skipped a command because it lagged is handling the first
\* command that was still retained.
C12_Witness ==
    \E i \in Scrapers :
        /\ pc[i] = "run"
        /\ recvd[i] = 1
        /\ pos[i] = 2
        /\ Len(cmds) = CmdCap + 1

\* Number of results of task i waiting in the result channel.
Waiting(i) == InChan(resChan, i, TRUE) + InChan(resChan, i, FALSE)

\* C13: the result channel never holds more than ResCap results; a task
\* whose send finds the open channel full stays in the send; every result
\* sent is either received or still waiting in the channel; and as long as
\* the supervisor has not closed the channel, a waiting result is received:
\* either the supervisor receives a result again and again, or the channel
\* is again and again empty or closed.
C13_Backpressure ==
    /\ [](Len(resChan) <= ResCap)
    /\ [][\A i \in Scrapers :
            (pc[i] = "send" /\ ResOpen /\ Len(resChan) = ResCap)
            => (pc'[i] \in {"send", "aborted"}
                /\ (pc'[i] = "send" => pending'[i] = pending[i]))]_vars
    /\ [](\A i \in Scrapers : sent[i] = Got(i) + Waiting(i))
    /\ ([]<>(resChan = <<>> \/ resClosed) \/ []<><<RecvResult>>_vars)

\* A task is blocked in its send on the full, open channel.
C13_Witness ==
    \E i \in Scrapers :
        /\ pc[i] = "send"
        /\ ResOpen
        /\ Len(resChan) = ResCap

\* C14: in scheduled mode no firing of the timer fails to send, every firing
\* has put one Run on the bus, and a spawned task that is waiting with
\* nothing left to receive has received a Run for every firing.
C14_EveryFiringDelivered ==
    mode = "loop" =>
        /\ ~tickFailed
        /\ NumRuns = ticks
        /\ \A i \in 1..spawned :
             (pc[i] = "recv" /\ pos[i] = Len(cmds) /\ ~ShutdownSent)
             => recvd[i] = ticks

\* C15: when run has returned, a timer that was started has been shut down.
C15_TimerStopped ==
    (supPc = "returned" /\ schedState # "none") => schedState = "stopped"

\* C16: while an apply is under way the supervisor takes no result from the
\* channel and observes no signal; a result is taken from the head of the
\* channel, and an Ok taken is the one applied next; the stored data change
\* only in the supervisor's apply step, one apply per step, for the result
\* taken last, never in a step of a scraper task; and every Ok received
\* has been applied, except the one being applied.
C16_ApplyInOrder ==
    /\ [][supPc = "apply" =>
            /\ gotOk' = gotOk
            /\ gotErr' = gotErr
            /\ sig' = sig
            /\ Len(resChan') >= Len(resChan)]_vars
    /\ [][TotalGot' # TotalGot =>
            /\ resChan # <<>>
            /\ resChan' = Tail(resChan)
            /\ LET f == Head(resChan).from
               IN gotOk'[f] + gotErr'[f] = Got(f) + 1
            /\ Head(resChan).ok => (cur' = Head(resChan) /\ supPc' = "apply")]_vars
    /\ [][(commits' # commits \/ failures' # failures \/ stored' # stored) =>
            /\ supPc = "apply"
            /\ LET f == cur.from
               IN commits'[f] + failures'[f] = Applies(f) + 1
            /\ \A j \in Scrapers \ {cur.from} :
                 /\ commits'[j] = commits[j]
                 /\ failures'[j] = failures[j]
                 /\ stored'[j] = stored[j]
            /\ stored'[cur.from] \in {stored[cur.from], cur.seq}
            /\ pc' = pc
            /\ pending' = pending
            /\ resChan' = resChan]_vars
    /\ [](\A i \in Scrapers :
            Applies(i) = gotOk[i]
                         - (IF supPc = "apply" /\ cur.from = i THEN 1 ELSE 0))

\* The result of task 2 is being applied after an apply for task 1 has
\* finished, while a further result waits in the channel.
C16_Witness ==
    /\ supPc = "apply"
    /\ cur.from = 2
    /\ Applies(1) = 1
    /\ resChan # <<>>

\* The results of task i waiting in the channel s carry increasing run
\* numbers, all above k.
RECURSIVE Ordered(_, _, _)
Ordered(s, i, k) ==
    IF s = <<>> THEN TRUE
    ELSE IF Head(s).from = i
         THEN Head(s).seq > k /\ Ordered(Tail(s), i, Head(s).seq)
         ELSE Ordered(Tail(s), i, k)

\* C17: a task has at most one run that was begun and has not returned, and
\* only while it is in that run (or was ended in it); it takes a command
\* only when it is waiting for one, with no result left to send; the result
\* it is about to send is that of the Run it received last; and its results
\* wait in the channel in the order of its runs, after those received.
C17_OneRunAtATime ==
    /\ [](\A i \in Scrapers :
            /\ recvd[i] - Finished(i) \in {0, 1}
            /\ recvd[i] - Finished(i) = 1 => pc[i] \in {"run", "aborted"}
            /\ pc[i] = "send" => pending[i].seq = recvd[i]
            /\ Ordered(resChan, i, Got(i)))
    /\ [][\A i \in Scrapers :
            (pc[i] # "unspawned" /\ pos'[i] # pos[i])
            => (pc[i] = "recv" /\ pending[i] = NoRes)]_vars

\* A second Run arrived while the task was in its first run: the task has
\* the result of the first run still to send and the Run is still waiting.
C17_Witness ==
    \E i \in Scrapers :
        /\ pc[i] = "send"
        /\ pending[i].seq = 1
        /\ pos[i] = 1
        /\ Len(cmds) = 2
        /\ cmds[2] = "Run"

\* ---- claims about the response cache ----

\* The entry of url u was inserted less than the TTL ago.
Fresh(u) == cache[u] # NoEntry /\ clock < cache[u].inserted + cache_ttl

\* The TTL of the entry of url u has passed.
Stale(u) == cache[u] # NoEntry /\ clock > cache[u].inserted + cache_ttl

\* C18: with a TTL D > 0, get_as_string for a url whose entry was inserted
\* at T and is still held by the cache returns the stored body without a
\* network call, leaving the cache as it is, at any time before T + D; at any
\* time after T + D it performs a network call.
C18_HitUntilExpiry ==
    [][\A u \in Urls :
        (cache_ttl > 0 /\ get_as_string(u))
        => /\ Fresh(u) => /\ last' = [url |-> u, net |-> 0,
                                       res |-> cache[u].value]
                          /\ cache' = cache
           /\ Stale(u) => last'.net = 1]_vars

\* A call was answered from an entry inserted at an earlier time, one clock
\* unit before its TTL passed.
C18_Witness ==
    /\ client = "built"
    /\ last.url \in Urls
    /\ last.net = 0
    /\ cache[last.url].value = last.res
    /\ cache[last.url].inserted < clock
    /\ clock + 1 = cache[last.url].inserted + cache_ttl

\* C18 as stated: every entry inserted at T is there to be served at any
\* time before T + D, and is served without a network call.
C18_ServedUntilExpiry ==
    /\ [][\A u \in Urls :
            (cache_ttl > 0 /\ get_as_string(u))
            => /\ Fresh(u) => last'.net = 0 /\ last'.res = cache[u].value
               /\ Stale(u) => last'.net = 1]_vars
    /\ [][\A u \in Urls :
            (client = "built" /\ client' = "built" /\ cache_ttl > 0
             /\ cache[u] # NoEntry /\ clock' < cache[u].inserted + cache_ttl)
            => cache'[u] = cache[u]]_vars

\* C19: with a TTL of 0 every get_as_string call performs exactly one
\* network request, whatever the cache holds for its url, and leaves the
\* cache as it is; while the client lives no entry is added to the cache or
\* replaced; and no entry the cache holds, loaded from the file or not, can
\* be found by a lookup.
C19_TtlZeroDisables ==
    /\ [](cache_ttl = 0
            => /\ last.url \in Urls => last.net = 1
               /\ \A u \in Urls : Lookup(cache, u, clock) = NoEntry)
    /\ [][\A u \in Urls :
            (cache_ttl = 0 /\ get_as_string(u))
            => (last'.net = 1 /\ cache' = cache)]_vars
    /\ [][(cache_ttl = 0 /\ client = "built" /\ client' = "built")
            => \A u \in Urls : cache'[u] \in {cache[u], NoEntry}]_vars

\* With a TTL of 0 a call was answered by the network with a body other
\* than the one the cache, loaded from the file, holds for the url.
C19_Witness ==
    /\ cache_ttl = 0
    /\ client = "built"
    /\ last.url \in Urls
    /\ last.net = 1
    /\ last.res \in Bodies
    /\ cache[last.url] # NoEntry
    /\ cache[last.url].value # last.res

\* The keys of a store with their values.
StoreEntries(s) == {<<s[i].key, s[i].value>> : i \in 1..Len(s)}

\* The keys a cache holds with their values.
CacheEntries(c) == {<<u, c[u].value>> : u \in Keys(c)}

\* C20: with a path and a TTL > 0, a save that succeeds writes a file that
\* holds exactly the keys and values of the entries resident in the cache at
\* that time; nothing changes the file until the next build; and that
\* build, with the same capacity, yields a cache that holds exactly the keys
\* and values of the file, every one of them found by a lookup.
C20_RoundTrip ==
    /\ [][(save /\ cache_path # NoPath /\ cache_ttl > 0 /\ saveRes' = "ok")
            => /\ file'.kind = "valid"
               /\ Len(file'.store) = Cardinality(StoreEntries(file'.store))
               /\ Cardinality(Keys(Unexpired(cache, clock))) <= cache_capacity
                  => StoreEntries(file'.store)
                        = CacheEntries(Unexpired(cache, clock))]_vars
    /\ [][client = "unbuilt" => file' = file]_vars
    /\ [][(build /\ cache_path # NoPath /\ cache_ttl > 0 /\ saveRes = "ok")
            => /\ CacheEntries(cache') = StoreEntries(file.store)
               /\ CacheEntries(Unexpired(cache', clock')) = CacheEntries(cache')
               /\ Cardinality(Keys(cache')) <= cache_capacity]_vars

\* A cache was saved with two entries and, at a later time, built again
\* from the file: it holds both, and no call has been made since.
C20_Witness ==
    /\ client = "built"
    /\ saveRes = "ok"
    /\ cache_path # NoPath
    /\ cache_ttl > 0
    /\ last = NoCall
    /\ file.kind = "valid"
    /\ Len(file.store) = 2
    /\ \A u \in Urls : cache[u] # NoEntry /\ cache[u].inserted > 0

\* The entry the cache holds for url u was loaded from the file when the
\* client was built.
Loaded(u) ==
    /\ cache[u] # NoEntry
    /\ cache[u].inserted = builtAt
    /\ <<u, cache[u].value>> \in StoreEntries(load(file).store)

\* C21: every entry build loads from the file is stamped with the time of
\* the load, whatever its age was when it was saved; a get_as_string for a
\* loaded entry the cache still holds is a hit without a network call at any
\* time less than one TTL after the load, and a network call from one TTL
\* after the load on.
C21_TtlFromLoad ==
    /\ [][(build /\ cache_path # NoPath)
            => \A u \in Urls :
                 /\ cache'[u] # NoEntry => cache'[u].inserted = clock
                 /\ cache'[u] # NoEntry
                    <=> \E i \in 1..Len(load(file).store) :
                           load(file).store[i].key = u]_vars
    /\ [][\A u \in Urls :
            (cache_ttl > 0 /\ get_as_string(u) /\ Loaded(u))
            => /\ clock < builtAt + cache_ttl
                  => last' = [url |-> u, net |-> 0, res |-> cache[u].value]
               /\ clock >= builtAt + cache_ttl => last'.net = 1]_vars

\* A cache was saved and built again at a later time, and an entry loaded
\* from the file was served one clock unit before a TTL had passed since
\* the load.
C21_Witness ==
    /\ client = "built"
    /\ saveRes = "ok"
    /\ builtAt > 0
    /\ last.url \in Urls
    /\ last.net = 0
    /\ Loaded(last.url)
    /\ clock > builtAt
    /\ clock + 1 = builtAt + cache_ttl

\* C21 as stated: every loaded entry is there to be served for a full TTL
\* after the load, also in a cache that is within its capacity.
C21_LoadedServedFullTtl ==
    /\ [][\A u \in Urls :
            (cache_ttl > 0 /\ get_as_string(u) /\ Loaded(u)
             /\ clock < builtAt + cache_ttl)
            => last'.net = 0]_vars
    /\ [][\A u \in Urls :
            (client = "built" /\ client' = "built" /\ cache_ttl > 0
             /\ Cardinality(Keys(cache)) <= cache_capacity
             /\ Loaded(u) /\ clock' < builtAt + cache_ttl)
            => cache'[u] = cache[u]]_vars

\* C22: a save with a path that returns Ok leaves a file that lists, once
\* each, only entries the cache holds and a lookup still finds at that time,
\* all of them when they fit the capacity, whatever the file held before:
\* an expired entry is not written, purged or not, and the list is empty
\* when all have expired. A save that returns an error leaves the file as it
\* was or malformed.
C22_SaveOnlyUnexpired ==
    [][(save /\ cache_path # NoPath)
        => /\ saveRes' = "ok"
              => /\ file'.kind = "valid"
                 /\ Len(file'.store) = Cardinality(StoreEntries(file'.store))
                 /\ StoreEntries(file'.store)
                       \subseteq CacheEntries(Unexpired(cache, clock))
                 /\ Cardinality(Keys(Unexpired(cache, clock))) <= cache_capacity
                    => StoreEntries(file'.store)
                          = CacheEntries(Unexpired(cache, clock))
                 /\ \A u \in Urls :
                      (cache[u] # NoEntry
                       /\ clock >= cache[u].inserted + cache_ttl)
                      => \A i \in 1..Len(file'.store) :
                           file'.store[i].key # u
           /\ saveRes' = "err"
              => (file' = file \/ file'.kind = "malformed")]_vars

\* With a TTL > 0 and room for every url, a save returned Ok and wrote an
\* empty list although the cache still held two entries, both expired.
C22_Witness ==
    /\ client = "unbuilt"
    /\ cache_path # NoPath
    /\ cache_ttl > 0
    /\ cache_capacity = 2
    /\ saveRes = "ok"
    /\ saveDropped = 2
    /\ file = [kind |-> "valid", store |-> <<>>]

\* C23: a save of a client built without a cache path returns Ok and leaves
\* the file system as it was: no file comes to exist and none is changed.
C23_SaveWithoutPath ==
    [][(save /\ cache_path = NoPath)
        => (saveRes' = "ok" /\ file' = file)]_vars

\* A client without a path was saved while its cache held two entries: the
\* save returned Ok, wrote none of them, and there is still no file.
C23_Witness ==
    /\ client = "unbuilt"
    /\ cache_path = NoPath
    /\ saveRes = "ok"
    /\ saveDropped = 2
    /\ file = NoFile

\* C24: a build with a path whose file is missing, unreadable or malformed
\* yields a built client with an empty cache, also when entries at the head
\* of the file could be decoded, and leaves the file as it is; the client
\* then answers calls from the network.
C24_BadFileEmptyCache ==
    /\ [][(build /\ cache_path # NoPath /\ file.kind # "valid")
            => (client' = "built" /\ cache' = EmptyCache /\ file' = file)]_vars
    /\ [](client = "built" => \A u \in Urls : ENABLED get_as_string(u))

\* A client built over a file that was cut off after its first entry has
\* answered a call for the url of that entry from the network.
C24_Witness ==
    /\ client = "built"
    /\ cache_path # NoPath
    /\ file = CutOffFile
    /\ last = [url |-> "u1", net |-> 1, res |-> "b"]

\* ---- claims about the end of run ----

\* C25: run returns the result of run_oneshot or run_loop as it was before
\* the cache was saved, whether the save succeeded or failed.
C25_SaveFailureOnlyLogged ==
    /\ [](supPc = "returned" => (runResult = res /\ cacheSaved # "none"))
    /\ [][(supPc = "save" /\ supPc' = "returned")
            => (runResult' = res /\ res' = res)]_vars

\* run returned Ok although the save of the cache failed.
C25_Witness ==
    /\ supPc = "returned"
    /\ cacheSaved = "err"
    /\ res = "ok"
    /\ runResult = "ok"

\* ---- claims about the clones of the client ----

\* C26: every clone of the client refers to the cache of the client that
\* run saves at the end. A response a task puts is from then on the entry of
\* that cache for its url, and the entries of other urls stay as they are,
\* also while other tasks are fetching; an entry the cache holds is a hit for
\* every task, whichever task put it; and a save that returns Ok writes every
\* unexpired entry, whichever task put it.
C26_SharedCache ==
    /\ [](\A t \in Clones : handle[t] # "none" => Target(t) = cache)
    /\ [][\A t \in Clones :
            (Complete(t) /\ (cache' # cache \/ copies' # copies))
            => /\ cache'[flight[t]] = [value |-> last'.res, inserted |-> clock]
               /\ \A u \in Urls \ {flight[t]} :
                    Lookup(cache, u, clock) # NoEntry => cache'[u] = cache[u]]_vars
    /\ [][\A t \in Clones, u \in Urls :
            (Begin(t, u) /\ Lookup(cache, u, clock) # NoEntry)
            => (last' = [url |-> u, net |-> 0, res |-> cache[u].value]
                /\ flight' = flight)]_vars
    /\ [][(save /\ saveRes' = "ok")
            => StoreEntries(file'.store)
                 = CacheEntries(Unexpired(cache, clock))]_vars

\* Two tasks have each put a response for a url of their own, and the save
\* at the end of the run wrote both.
C26_Witness ==
    /\ client = "unbuilt"
    /\ saveRes = "ok"
    /\ storedBy["u1"] = "t1"
    /\ storedBy["u2"] = "t2"
    /\ file.kind = "valid"
    /\ Len(file.store) = 2

\* ---- claims about the store ----

\* What the store holds for the site: its restaurants and their dishes.
SiteView(t) ==
    LET rs == {r \in t.restaurant : r.site_id = Site}
    IN  [restaurant |-> rs, dish |-> DishesOf(t, get_restaurant_ids(rs))]

\* The rows a restaurant of a result is stored as.
StoredRestaurant(r) == RestaurantRow(r.site_id, r.restaurant_id, r.name)

StoredDishes(r) ==
    {DishRow(d.restaurant_id, d.dish_id, d.name, Join(d.tags)) : d \in r.dishes}

\* The restaurants of the result.
InUpdate == {update[i] : i \in DOMAIN update}

\* What a returned read holds is what the store held for the site at some
\* time between two updates.
C27_SeesOneState ==
    rdPc = "done" => \E h \in hist : seen = SiteView(h)

\* A restaurant of the result that was read was read with its dishes.
C27_NoResultRestaurantWithoutDishes ==
    rdPc = "done" =>
        \A r \in InUpdate :
            StoredRestaurant(r) \in seen.restaurant
                => DishesOf(seen, {r.restaurant_id}) = StoredDishes(r)

\* A name the store has a restaurant for both before and after the update
\* has one in what was read.
C27_NoGapBetweenDeleteAndInsert ==
    rdPc \in {"dishes", "done"} =>
        \A r \in InUpdate :
            (\A h \in hist : \E s \in h.restaurant :
                s.site_id = r.site_id /\ s.restaurant_name = r.name)
                => \E s \in seen.restaurant : s.restaurant_name = r.name

\* C27: what a concurrent reader of the site has read when its request
\* returns is what the store held for the site either before or after a
\* whole update: in particular no restaurant of the result is read without
\* its dishes, and no restaurant the update replaces is missing from what was
\* read while its replacement is missing too.
C27_AtomicForReaders ==
    /\ C27_SeesOneState
    /\ C27_NoResultRestaurantWithoutDishes
    /\ C27_NoGapBetweenDeleteAndInsert

\* C28: once a call of update_restaurants with the result has committed, the
\* restaurants and dishes of the store are, whenever no call is under way,
\* those that first call left: a second call with the same result, whether
\* it commits or fails, leaves them as they were, whatever the store held at
\* the start.
C28_TwiceAsOnce ==
    /\ \A i \in DOMAIN commitLog : commitLog[i] = commitLog[1]
    /\ (txPc = "idle" /\ commitLog # <<>>) => pg = commitLog[1]

\* Two calls with a result of two restaurants have committed, and the first
\* changed the store.
C28_Witness ==
    /\ Len(commitLog) = 2
    /\ Len(update) = 2
    /\ txPc = "idle"
    /\ applies = 2
    /\ Cardinality(hist) = 2
    /\ pg = commitLog[1]

\* The restaurants and dishes of the result, as rows.
ResultView ==
    [restaurant |-> {StoredRestaurant(r) : r \in InUpdate},
     dish |-> UNION {StoredDishes(r) : r \in InUpdate}]

\* The restaurants the tables t hold for the site under a name that no
\* restaurant of the result has, and their dishes.
NotScraped(t) ==
    LET rs == {s \in t.restaurant :
                  /\ s.site_id = Site
                  /\ \A r \in InUpdate : r.name # s.restaurant_name}
    IN  [restaurant |-> rs, dish |-> DishesOf(t, get_restaurant_ids(rs))]

SameName(t, r) ==
    {s \in t.restaurant :
        s.site_id = r.site_id /\ s.restaurant_name = r.name}

\* C30: for every restaurant r of the result, a commit of update_restaurants
\* leaves none of the restaurants that were stored at the site of r under
\* the name of r, and none of their dishes, except r itself as the result
\* holds it: exactly one restaurant of that name is then stored at the site,
\* it is r, and the dishes stored for it are exactly the dishes r has in the
\* result.
C30_UpsertByName ==
    [][tx_commit =>
          \A r \in InUpdate :
              /\ \A s \in SameName(pg, r) \ {StoredRestaurant(r)} :
                     /\ s \notin pg'.restaurant
                     /\ DishesOf(pg', {s.restaurant_id}) = {}
              /\ SameName(pg', r) = {StoredRestaurant(r)}
              /\ DishesOf(pg', {r.restaurant_id}) = StoredDishes(r)]_vars

\* An update with r1 (name n1, dishes d1 and d2) has committed on a store
\* that held o1 and o2 under n1 at the site and o4 under n1 at another site:
\* r1 is the one restaurant named n1 at the site, with its two dishes, their
\* tags joined; the dishes of o1 and o2 are gone; o4 is untouched.
C30_Witness ==
    /\ txPc = "idle"
    /\ Len(commitLog) = 1
    /\ \E h \in hist :
           {RestaurantRow(Site, "o1", "n1"), RestaurantRow(Site, "o2", "n1")}
               \subseteq h.restaurant
    /\ SameName(pg, R1) = {RestaurantRow(Site, "r1", "n1")}
    /\ DishesOf(pg, {"r1"})
           = {DishRow("r1", "d1", "soup", "veg,hot"),
              DishRow("r1", "d2", "stew", "")}
    /\ DishesOf(pg, {"o1", "o2"}) = {}
    /\ RestaurantRow(OtherSite, "o4", "n1") \in pg.restaurant
    /\ DishRow("o4", "x4", "soup", "") \in pg.dish

\* ---- claims about the site id of a scraper ----

\* The results in being: held by a task, in the result channel, or being
\* applied.
ResultsInBeing ==
    {pending[i] : i \in Scrapers} \cup {resChan[k] : k \in DOMAIN resChan}
        \cup {cur}

\* C31: get_site_relation is called once for a scraper, while the supervisor
\* is in setup_scrapers; no Run is on the command bus before it has been
\* called for every scraper; the id a scraper was built with never changes,
\* and every Ok result, of whatever cycle, carries it as its site_id and as
\* the site_id of each of its restaurants.
C31_SiteIdResolvedOnce ==
    /\ [](\A i \in 1..n :
            /\ resolves[i] <= 1
            /\ pc[i] # "unspawned" => resolves[i] = 1 /\ site_id[i] \in SiteIds
            /\ (\E k \in DOMAIN cmds : cmds[k] = "Run") => resolves[i] = 1)
    /\ [](\A r \in ResultsInBeing :
            r.ok => r.site_id = site_id[r.from] /\ r.sites = {site_id[r.from]})
    /\ [][\A i \in 1..n :
            /\ resolves'[i] # resolves[i] => supPc = "setup"
            /\ site_id[i] # NoSite => site_id'[i] = site_id[i]]_vars

\* The site of the key got another id after startup, and the result of the
\* scraper's second run, now being applied, carries the id resolved at
\* startup.
C31_Witness ==
    /\ relation = "s2"
    /\ resolves[1] = 1
    /\ supPc = "apply"
    /\ cur.seq = 2
    /\ cur.site_id = "s1"
    /\ cur.sites = {"s1"}

\* ---- claims about the reference scraper ----

\* The dishes the items of the downloaded entry with key k make for the
\* restaurant of a name.
DishesOfEntry(k, name) ==
    {DishOfItem(dayMenus[k], idx, name) : idx \in DOMAIN dayMenus[k].items}

\* C32: when parse_site has gone through the menus it returns Ok; a
\* downloaded entry whose stripped key is no restaurant name of the listing
\* has made no dish; every item of a downloaded entry whose stripped key is
\* the name of a restaurant is a dish of that restaurant, with the
\* restaurant's id as its restaurant_id; every restaurant of the listing is
\* in the result, and one that has no entry has no dishes.
C32_JoinByKey ==
    /\ psPc = "join" => parseRes = "none"
    /\ (psPc = "done" /\ skipped # {}) => parseRes = "ok"
    /\ (psPc = "done" /\ parseRes = "ok") =>
        /\ DOMAIN rsMap = listing
        /\ \A k \in DOMAIN dayMenus :
               IF StrippedKey(k) \in listing
               THEN /\ DishesOfEntry(k, StrippedKey(k))
                           \subseteq rsMap[StrippedKey(k)]
                    /\ \A d \in DishesOfEntry(k, StrippedKey(k)) :
                           d.restaurant_id = RestaurantId(StrippedKey(k))
               ELSE \A name \in listing :
                        DishesOfEntry(k, name) \cap rsMap[name] = {}
        /\ \A name \in listing :
               (\A k \in DOMAIN dayMenus : StrippedKey(k) # name)
                   => rsMap[name] = {}

\* C33: a dish is shown as its name, one space and its description when it
\* has a description, and as its name alone when it has none.
C33_DishDisplay ==
    shown # <<>> =>
        LET text == shown[1]
            name == shownDish.name
        IN  IF shownDish.description = None
            THEN text = name
            ELSE LET d == shownDish.description[1]
                 IN  /\ Len(text) = Len(name) + 1 + Len(d)
                     /\ SubSeq(text, 1, Len(name)) = name
                     /\ SubSeq(text, Len(name) + 1, Len(name) + 1) = " "
                     /\ SubSeq(text, Len(name) + 2, Len(text)) = d

\* The dish of the test dish_display has been shown: "meat balls".
C33_Witness ==
    /\ shownDish = [name |-> "meat", description |-> Some("balls")]
    /\ shown = <<"meat balls">>

\* C34: in scheduled mode, when run has returned after the supervisor
\* observed the shutdown signal, it has returned success, however the scraper
\* tasks were interleaved with it.
C34_SignalIsSuccess ==
    (mode = "loop" /\ sig = "observed" /\ supPc = "returned") =>
        runResult = "ok"

\* C35: when the supervisor observes the shutdown signal it closes the
\* result channel, and from then on it takes nothing from the channel and
\* applies nothing: the results waiting in the channel stay there, no result
\* is added, and no commit or failed apply is counted.
C35_NothingAfterSignal ==
    /\ [](sig = "observed" => resClosed)
    /\ [][sig' = "observed" =>
            /\ dbVars' = dbVars
            /\ resChan' = resChan
            /\ supPc' # "apply"]_vars

\* run has returned after a signal that found a result waiting in the
\* channel and a task in the middle of a run: the task has finished the run
\* and ended, the waiting result is still in the channel.
C35_Witness ==
    /\ sig = "observed"
    /\ supPc = "returned"
    /\ resChan # <<>>
    /\ \E i \in busyAtSignal : pc[i] = "done" /\ okRuns[i] + errRuns[i] = recvd[i]

C37_OneshotSignal ==
    /\ [](mode = "oneshot" => TotalGot <= n)
    /\ []((mode = "oneshot" /\ sig = "observed") =>
            /\ TotalGot < n
            /\ supPc \notin {"select", "apply"})
    /\ [][(mode = "oneshot" /\ sig = "none" /\ sig' = "observed") =>
            /\ supPc' = "stopSend"
            /\ TotalGot' = TotalGot]_vars

\* A one-shot run of two scrapers has returned after a signal observed when
\* one of the two results had been handled.
C37_Witness ==
    /\ mode = "oneshot"
    /\ n = 2
    /\ sig = "observed"
    /\ supPc = "returned"
    /\ TotalGot = 1
    /\ iter = 1

\* C38: a call of update_restaurants that fails, at whatever step, returns
\* the error and leaves the committed restaurants and dishes exactly as they
\* were; the committed tables change in no step but a commit.
C38_FailedApplyChangesNothing ==
    /\ [][query_error => (pg' = pg /\ applyRes' = "err")]_vars
    /\ [][pg' # pg => tx_commit]_vars

\* A first call has failed at the insert of the dishes, after its delete had
\* removed a restaurant that was stored under the name of one of the result
\* and its insert had added the new one: the store is as it was at the start.
C38_Witness ==
    /\ applies = 1
    /\ applyRes = "err"
    /\ failedAt = "dishes"
    /\ txPc = "idle"
    /\ hist = {pg}
    /\ \E r \in InUpdate : \E s \in pg.restaurant :
           /\ s.site_id = r.site_id
           /\ s.restaurant_name = r.name
           /\ s.restaurant_id # r.restaurant_id

\* What the tables t hold for the sites other than the one of the result.
OtherSitesView(t) ==
    LET rs == {r \in t.restaurant : r.site_id # Site}
    IN  [restaurant |-> rs, dish |-> DishesOf(t, get_restaurant_ids(rs))]

\* C39: no step of update_restaurants with a result of the site changes what
\* the store holds for another site: its restaurants and their dishes are
\* the same before and after every commit, and the same in every state the
\* committed tables are ever in.
C39_OtherSitesUntouched ==
    /\ [][OtherSitesView(pg') = OtherSitesView(pg)]_vars
    /\ [](\A h \in hist : OtherSitesView(h) = OtherSitesView(pg))

\* A result holding a restaurant named n1 has been committed and has changed
\* the store, and the restaurant another site has under the same name is
\* still stored with its dish.
C39_Witness ==
    /\ commitLog # <<>>
    /\ Cardinality(hist) >= 2
    /\ R1 \in InUpdate
    /\ RestaurantRow(OtherSite, "o4", "n1") \in pg.restaurant
    /\ DishRow("o4", "x4", "soup", "") \in pg.dish
    /\ RestaurantRow(Site, "r1", "n1") \in pg.restaurant

\* C40: once the resolution of the scraper's site id has failed in
\* setup_scrapers, no task exists, no Run is ever on the command bus, no run
\* is started, no result is received and nothing is applied; and when run
\* has returned it has returned the error, after closing the connection and
\* after the attempt to save the cache.
C40_SetupFailureAborts ==
    /\ dropped =>
          /\ res = "err"
          /\ cmds = <<>>
          /\ \A i \in Scrapers :
                /\ pc[i] = "unspawned"
                /\ recvd[i] = 0
                /\ okRuns[i] + errRuns[i] = 0
                /\ commits[i] + failures[i] = 0
          /\ TotalGot = 0
          /\ resChan = <<>>
    /\ (dropped /\ supPc = "returned") =>
          /\ runResult = "err"
          /\ pgClosed
          /\ cacheSaved # "none"

\* With a schedule given, the resolution failed after the timer had been
\* started; run has returned the error with the connection closed and the
\* cache saved.
C40_Witness ==
    /\ dropped
    /\ mode = "loop"
    /\ supPc = "returned"
    /\ runResult = "err"
    /\ pgClosed
    /\ cacheSaved = "ok"

====
